---- MODULE Spec2Model ----
(***************************************************************************)
(* shapetree.js: the Container model with its Mutex (lib/shape-tree.js),   *)
(* the filesystem Storage backend (storage/fs-promises.js), recursive      *)
(* static instantiation, the shapeTreeFetch dispatcher                     *)
(* (lib/shape-tree-fetch.js), and the Ecosystem's cachingFetch             *)
(* (bin/simple-apps.js).                                                   *)
(*                                                                         *)
(* JavaScript runs one callback at a time.  A step of the model is one     *)
(* callback: an I/O completion, a timer, or a call from outside, run up to *)
(* its next suspension.  Promise continuations (microtasks) run before the *)
(* next I/O completion or timer; the guard Quiet states that priority.     *)
(***************************************************************************)
EXTENDS Integers, Sequences, FiniteSets, TLC

\* Calls issued from outside on one Container instance (SpecMutex).
MaxCalls == 3
\* Storage failures injected in one behaviour (a permission error, a full disk).
MaxFaults == 1

\* The containers of the model: P is the container a schema is planted into,
\* R the root of the instance, A and B its statically labeled children, and C
\* the statically labeled child of A.
Conts == {"P", "R", "A", "B", "C"}
Nodes == {"R", "A", "B", "C"}

\* The directory a container's directory lives in; P lives in the document root.
Parent(n) ==
    CASE n = "R" -> "P"
      [] n = "A" -> "R"
      [] n = "B" -> "R"
      [] n = "C" -> "A"
      [] OTHER -> "docRoot"

\* The file a directory holds no index file in.
NoFile == {<<"no", "index", "file">>}

\* The statements Storage invents for a new container (makeContainer's body).
makeContainer(c) == {<<c, "type", "BasicContainer">>}

\* The containment triple addMember adds and removeMember removes.
contains(c, m) == <<c, "contains", m>>

VARIABLES
    locks,      \* per Container instance: the Mutex's lock() calls, in call order
    graph,      \* per Container instance: the in-memory statement-set (N3.Store)
    dir,        \* Storage: whether the container's directory exists
    index,      \* Storage: the statements of the directory's index file, or NoFile
    plain,      \* Storage: ensureContainer's unawaited writeContainer is in flight
    rm,         \* per Container instance: the frames of a removeContainer in progress
    faults,     \* Storage failures injected so far
    issued,     \* calls issued from outside so far
    pc,         \* per schema node: the position of its instantiateStatic call
    err,        \* per schema node: the error its instantiateStatic call raised
    newDir,     \* per schema node: Container.newDir of the container it opened
    sibs,       \* per schema node: its siblings whose calls had returned when it raised
    schema,     \* the steps of the schema that carry an rdfs:label, and its root R
    file,       \* Storage: whether the non-container resource P/R exists
    req,        \* shapeTreeFetch: the request of the call
    fpc,        \* shapeTreeFetch: the position of the call
    resp,       \* shapeTreeFetch: the response the call resolved with
    ferr,       \* shapeTreeFetch: the error caught after the forwarded write
    calls,      \* the calls of nextFetch, in call order
    registered, \* the instance locations handed to Ecosystem.registerInstance
    validated,  \* the outcome of postedContainer.validatePayload
    ret,        \* shapeTreeFetch: the response of the forwarded write
    location,   \* shapeTreeFetch: the location of the planted or created resource
    reused,     \* shapeTreeFetch: Ecosystem.reuseShapeTree reported an instance
    served,     \* the outcomes of the settled nextFetch calls, in call order
    caught,     \* shapeTreeFetch: the error as it was raised into the catch-all
    rstat,      \* shapeTreeFetch: the result of rstatOrNull(requestUrl)
    cache,      \* cachingFetch: per cache name, the file of the cache directory
    cf,         \* cachingFetch: per call, its url, position and result
    net,        \* cachingFetch: the urls handed to Fetch, in call order
    stores,     \* cachingFetch: per cache name, the storage.write calls that completed
    web,        \* the responses the network answers a Fetch with
    unit,       \* a call of one of the library's functions: the function and its arguments
    outcome     \* what that call returned or raised

mvars == <<locks, graph>>
svars == <<dir, index, plain, rm, faults, file>>
ivars == <<pc, err, newDir, sibs, schema>>
fvars ==
    <<req, fpc, resp, ferr, calls, registered, validated, ret, location, reused, served,
      caught, rstat>>
cvars == <<cache, cf, net, stores, web>>
uvars == <<unit, outcome>>
vars == <<locks, graph, dir, index, plain, rm, faults, issued, pc, err, newDir, sibs, schema,
          file, req, fpc, resp, ferr, calls, registered, validated, ret, location, reused,
          served, caught, rstat, cache, cf, net, stores, web, unit, outcome>>

\* The statically labeled children of a schema step: the tree:contents of stepNode
\* that carry an rdfs:label (338-343).
Labeled(n) == {m \in schema : Parent(m) = n}

(***************************************************************************)
(* Mutex (lib/shape-tree.js 20-37).  A lock() call k appends a ticket.     *)
(* willLock_k is resolved by the ticket's unlock function (st released);   *)
(* _locking after call k resolves once _locking before it and willLock_k   *)
(* have resolved; willUnlock_k resolves once _locking before call k has.   *)
(***************************************************************************)
\* st: the ticket's place in the Mutex (queued, held, released); io: the Storage
\* call its holder makes (idle, begun, settled), snap the statements handed to it.
Ticket(op, by) ==
    [op |-> op, by |-> by, st |-> "queued", io |-> "idle", snap |-> {}, res |-> "none"]

\* lock(): this._locking = this._locking.then(() => willLock)
lock(q, t) == Append(q, t)

\* Whether _locking, as it stood after the k-th lock() call, has resolved.
locking(q, k) == \A j \in 1..k : q[j].st = "released"

\* A mutant: the grant does not wait for _locking (willUnlock resolved at once).
willUnlockAtOnce(q, k) == q[k].st = "queued"

\* willUnlock of call k resolves: this._locking.then(() => unlockNext)
willUnlock(q, k) == q[k].st = "queued" /\ locking(q, k - 1)

\* A mutant: the unlock function counts the lock down without resolving willLock.
unlockNextUnresolved(q, k, res) == [q EXCEPT ![k].res = res]

\* unlockNext(): resolves willLock of ticket k.
unlockNext(q, k, res) == [q EXCEPT ![k].st = "released", ![k].res = res]

\* _locks: lock() calls whose unlock function has not been invoked.
locksCount(q) == Cardinality({k \in 1..Len(q) : q[k].st # "released"})

Held(q) == {k \in 1..Len(q) : q[k].st = "held"}

\* The Storage calls in flight on behalf of a queue's tickets.
Begun(q) == {k \in 1..Len(q) : q[k].io = "begun"}

\* A mutant: the rejection handler re-raises without invoking unlock.
settleHoldingOnFailure(q, k, res) ==
    IF res = "fail" THEN [q EXCEPT ![k].io = "settled", ![k].res = res]
    ELSE [unlockNext(q, k, res) EXCEPT ![k].io = "settled"]

\* The holder's Storage call settles: .then(x => { unlock(); ... }, e => { unlock(); ... })
settle(q, k, res) == [unlockNext(q, k, res) EXCEPT ![k].io = "settled"]

\* The ticket of the latest lock() call of operation op on a queue.
Last(q, op) ==
    LET ks == {k \in 1..Len(q) : q[k].op = op}
    IN  CHOOSE k \in ks : \A j \in ks : j <= k

\* instantiateStatic's await of Promise.all, or of ret.remove(), can resume.
Resumable(n) ==
    \/ /\ pc[n] = "children"
       /\ \/ \E m \in Labeled(n) : pc[m] = "failed"
          \/ \A m \in Labeled(n) : pc[m] = "done"
    \/ /\ pc[n] = "removing"
       /\ locks[n][Last(locks[n], "remove")].st = "released"

\* shapeTreeFetch's await of plantShapeTreeInstance's instantiateStatic, of a
\* postedContainer.write() or of created.write() can resume.
FetchResumable ==
    \/ fpc = "plant" /\ pc["R"] \in {"done", "failed"}
    \/ fpc \in {"plantWrite", "indexWrite"}
          /\ locks["P"][Last(locks["P"], "write")].st = "released"
    \/ fpc = "createdWrite" /\ locks["R"][Last(locks["R"], "write")].st = "released"

\* No promise continuation is waiting to run.
Quiet ==
    /\ \A c \in Conts : \A k \in 1..Len(locks[c]) : ~willUnlock(locks[c], k)
    /\ \A n \in Nodes : ~Resumable(n)
    /\ ~FetchResumable

(***************************************************************************)
(* Storage: storage/fs-promises.js                                         *)
(***************************************************************************)
\* readdir: the entries of a container's directory.
readdir(c) ==
    (IF index[c] # NoFile THEN {"index"} ELSE {})
        \cup (IF c = "P" /\ file THEN {"file"} ELSE {})
        \cup {m \in Conts : Parent(m) = c /\ dir[m]}

\* An injected failure is still allowed.
CanFault == faults < MaxFaults

Frame(n) == [node |-> n, phase |-> "readdir", todo |-> {}]

Top(s) == s[Len(s)]
Pop(s) == SubSeq(s, 1, Len(s) - 1)
SetTop(s, f) == [s EXCEPT ![Len(s)] = f]


(***************************************************************************)
(* Container (lib/shape-tree.js 44-109)                                    *)
(***************************************************************************)
\* write(): const unlock = await this._mutex.lock()
write(c, by) == [locks EXCEPT ![c] = lock(@, Ticket("write", by))]

\* remove(): const unlock = await this._mutex.lock()
remove(c, by) == [locks EXCEPT ![c] = lock(@, Ticket("remove", by))]

\* A mutant: write() invokes unlock without waiting for writeContainer to settle.
beginUnlocked(t, g) == [t EXCEPT !.st = "released", !.io = "begun", !.snap = g]

\* write() and remove() resume from await this._mutex.lock() and call Storage:
\* fileSystem.writeContainer(this.graph, ...) or fileSystem.removeContainer(this.url).
begin(t, g) == [t EXCEPT !.st = "held", !.io = "begun", !.snap = g]

\* A mutant: addMember adds the triple with subject and object exchanged.
addMemberReversed(g, c, m) == g \cup {contains(m, c)}

\* addMember (100-103): this.graph.addQuad of the containment triple.
addMember(g, c, m) == g \cup {contains(c, m)}

\* A mutant: removeMember leaves the statement-set as it is.
removeMemberNothing(g, c, m) == g

\* removeMember (105-108): this.graph.removeQuad of the containment triple.
removeMember(g, c, m) == g \ {contains(c, m)}

\* A lock() call is granted: its caller resumes with the unlock function.
\* write() calls fileSystem.writeContainer with the statement-set as it is now;
\* remove() calls fileSystem.removeContainer, which starts with readdir.
Grant(c) ==
    \E k \in 1..Len(locks[c]) :
        /\ willUnlock(locks[c], k)
        /\ locks' = [locks EXCEPT ![c][k] =
                        IF @.op = "write" THEN begin(@, graph[c])
                        ELSE IF @.op = "remove" THEN begin(@, {})
                        ELSE [@ EXCEPT !.st = "held"]]
        /\ rm' = IF locks[c][k].op = "remove"
                 THEN [rm EXCEPT ![c] = <<Frame(c)>>] ELSE rm
        /\ UNCHANGED <<graph, dir, index, plain, faults, issued, file, fvars, cvars, uvars, ivars>>

\* fileSystem.writeContainer of a write() settles (fs-promises.js 537-541):
\* writeFile replaces the index file, or fails when the directory is gone or
\* the Storage fails; write() unlocks on both outcomes.
writeContainerDone(c) ==
    \E k \in Begun(locks[c]) :
        /\ Quiet
        /\ locks[c][k].op = "write"
        /\ \/ /\ dir[c]
              /\ index' = [index EXCEPT ![c] = locks[c][k].snap]
              /\ locks' = [locks EXCEPT ![c] = settle(@, k, "ok")]
              /\ UNCHANGED faults
           \/ /\ ~dir[c] \/ CanFault
              /\ faults' = IF dir[c] THEN faults + 1 ELSE faults
              /\ locks' = [locks EXCEPT ![c] = settle(@, k, "fail")]
              /\ UNCHANGED index
        /\ UNCHANGED <<graph, dir, plain, rm, issued, file, fvars, cvars, uvars, ivars>>

\* removeContainer rejects: remove() unlocks and re-raises.
rmFail(c, k) ==
    /\ locks' = [locks EXCEPT ![c] = settle(@, k, "fail")]
    /\ rm' = [rm EXCEPT ![c] = <<>>]

\* removeContainer (fs-promises.js 560-576): readdir of the top frame completes.
removeContainerReaddir(c) ==
    \E k \in Begun(locks[c]) :
        /\ Quiet
        /\ locks[c][k].op = "remove"
        /\ rm[c] # <<>> /\ Top(rm[c]).phase = "readdir"
        /\ LET f == Top(rm[c])
           IN  IF dir[f.node]
               THEN /\ rm' = [rm EXCEPT ![c] = SetTop(@,
                              [f EXCEPT !.phase = "entries", !.todo = readdir(f.node)])]
                    /\ UNCHANGED locks
               ELSE rmFail(c, k)
        /\ UNCHANGED <<graph, dir, index, plain, faults, issued, file, fvars, cvars, uvars, ivars>>

\* removeContainer: lstat of one entry, then unlink of a file or the recursive
\* call on a directory; a vanished entry makes the whole removal fail.
removeContainerEntry(c) ==
    \E k \in Begun(locks[c]) :
        /\ Quiet
        /\ locks[c][k].op = "remove"
        /\ rm[c] # <<>> /\ Top(rm[c]).phase = "entries"
        /\ \E e \in Top(rm[c]).todo :
            LET f == Top(rm[c])
                rest == [f EXCEPT !.todo = @ \ {e}]
            IN  IF e = "index"
                THEN IF index[f.node] # NoFile
                     THEN /\ index' = [index EXCEPT ![f.node] = NoFile]
                          /\ rm' = [rm EXCEPT ![c] = SetTop(@, rest)]
                          /\ UNCHANGED <<locks, file>>
                     ELSE rmFail(c, k) /\ UNCHANGED <<index, file>>
                ELSE IF e = "file"
                THEN IF file
                     THEN /\ file' = FALSE
                          /\ rm' = [rm EXCEPT ![c] = SetTop(@, rest)]
                          /\ UNCHANGED <<locks, index>>
                     ELSE rmFail(c, k) /\ UNCHANGED <<index, file>>
                ELSE IF dir[e]
                     THEN /\ rm' = [rm EXCEPT ![c] = Append(SetTop(@, rest), Frame(e))]
                          /\ UNCHANGED <<locks, index, file>>
                     ELSE rmFail(c, k) /\ UNCHANGED <<index, file>>
        /\ UNCHANGED <<graph, dir, plain, faults, issued, fvars, cvars, uvars, ivars>>

\* removeContainer: rmdir of the top frame's directory, which must be empty.
removeContainerRmdir(c) ==
    \E k \in Begun(locks[c]) :
        /\ Quiet
        /\ locks[c][k].op = "remove"
        /\ rm[c] # <<>> /\ Top(rm[c]).phase = "entries" /\ Top(rm[c]).todo = {}
        /\ LET n == Top(rm[c]).node
           IN  \/ /\ dir[n] /\ readdir(n) = {}
                  /\ dir' = [dir EXCEPT ![n] = FALSE]
                  /\ rm' = [rm EXCEPT ![c] = Pop(@)]
                  /\ locks' = IF Len(rm[c]) = 1
                              THEN [locks EXCEPT ![c] = settle(@, k, "ok")]
                              ELSE locks
                  /\ UNCHANGED faults
               \/ /\ ~(dir[n] /\ readdir(n) = {}) \/ CanFault
                  /\ faults' = IF dir[n] /\ readdir(n) = {} THEN faults + 1 ELSE faults
                  /\ rmFail(c, k)
                  /\ UNCHANGED dir
        /\ UNCHANGED <<graph, index, plain, issued, file, fvars, cvars, uvars, ivars>>

\* ensureContainer's makeContainer calls writeContainer without awaiting it
\* (fs-promises.js 626): the write lands at any later time and replaces the index
\* file with the invented statements, or is lost when the directory is gone.
makeContainerLands(n) ==
    /\ Quiet
    /\ plain[n]
    /\ plain' = [plain EXCEPT ![n] = FALSE]
    /\ index' = IF dir[n] THEN [index EXCEPT ![n] = makeContainer(n)] ELSE index
    /\ UNCHANGED <<locks, graph, dir, rm, faults, issued, file, fvars, cvars, uvars, ivars>>

(***************************************************************************)
(* ManagedContainer and RemoteShapeTree.instantiateStatic                  *)
(* (lib/shape-tree.js 117-170, 332-357)                                    *)
(***************************************************************************)
NoErr == [managed |-> FALSE, name |-> "none", root |-> "none", msg |-> <<>>, status |-> "none"]

\* An Error raised by Storage: not a ManagedError.
StorageError(op, n) ==
    [managed |-> FALSE, name |-> "Error", root |-> "none", msg |-> <<op, n>>, status |-> "none"]

\* new Errors.ShapeTreeStructureError(rootUrl.href, e.message)
ShapeTreeStructureError(n, e) ==
    [managed |-> TRUE, name |-> "ShapeTreeStructureError", root |-> n, msg |-> e.msg,
     status |-> "own"]

\* The schema the instance is bound to, and the instance path of each node.
ShapeTreeUrl == "S"
InstancePath(n) == CASE n = "R" -> "." [] n = "C" -> "A/C" [] OTHER -> n

\* containerText (151-162): the three binding statements of a new instance.
\* The instance root is the reference Path.relative(path, '') as parseTurtle
\* resolves it, against the url of the container.
containerText(n, shapeTreeUrl, path) ==
    { <<n, "shapeTreeRoot", shapeTreeUrl>>,
      <<n, "shapeTreeInstancePath", path>>,
      <<n, "shapeTreeInstanceRoot", <<"relative", path, "", n>> >> }

\* rdfInterface.zeroOrOne(g, s, p, null) as asUrl and asLiteral use it (184-192):
\* the object of the statement, or nothing (null).
zeroOrOne(g, s, p) == {t[3] : t \in {u \in g : u[1] = s /\ u[2] = p}}

\* parseShapeTreeInstance (165-169): the binding fields are read from the
\* statement-set.  A field is the set of its value, empty when it is null or
\* undefined.
parseShapeTreeInstance(g, n) ==
    [shapeTreeInstanceRoot |-> zeroOrOne(g, n, "shapeTreeInstanceRoot"),
     shapeTreeInstancePath |-> zeroOrOne(g, n, "shapeTreeInstancePath"),
     shapeTreeUrl |-> zeroOrOne(g, n, "shapeTreeRoot")]

\* The ManagedContainer constructor without a parsed graph (123-128):
\* `this,shapeTreeUrl = shapeTreeUrl` assigns the parameter to itself and leaves
\* this.shapeTreeUrl undefined; the instance root is
\* new URL(Path.relative(path, ''), shapeTreeUrl), resolved against the schema's
\* url.
constructed(shapeTreeUrl, path) ==
    [shapeTreeInstanceRoot |-> {<<"relative", path, "", shapeTreeUrl>>},
     shapeTreeInstancePath |-> {path},
     shapeTreeUrl |-> {}]

\* The binding fields of the ManagedContainer of step n once it is ready: on a
\* new directory those of the constructor, otherwise those that
\* parseShapeTreeInstance read in loadOrCreate (136-143).
bindingFields(n) ==
    IF newDir[n] THEN constructed(ShapeTreeUrl, InstancePath(n))
    ELSE parseShapeTreeInstance(graph[n], n)

\* Container.loadOrCreate (60-73) up to its first Storage call: the lock of the
\* new instance's Mutex is granted and fileSystem.ensureContainer begins (mkdir).
loadOrCreate(q) == Append(q, begin(Ticket("load", "inst"), {}))

\* The call instantiateStatic(n, ...) starts: new ManagedContainer(rootUrl, ...).
Started(f, ns, v) == [m \in DOMAIN f |-> IF m \in ns THEN v ELSE f[m]]

\* The error a call raises, and the outcome its caller sees.
Raise(n, e) ==
    /\ pc' = [pc EXCEPT ![n] = "failed"]
    /\ err' = [err EXCEPT ![n] = e]
    /\ sibs' = [sibs EXCEPT ![n] = {m \in Labeled(Parent(n)) \ {n} : pc[m] = "done"}]

\* ensureContainer (fs-promises.js 590-614): mkdir completes.
ensureContainerMkdir(n) ==
    /\ Quiet
    /\ pc[n] = "mkdir"
    /\ \/ /\ ~dir[n] /\ dir[Parent(n)]
          /\ dir' = [dir EXCEPT ![n] = TRUE]
          /\ plain' = [plain EXCEPT ![n] = TRUE]
          /\ newDir' = [newDir EXCEPT ![n] = TRUE]
          /\ graph' = [graph EXCEPT ![n] = @ \cup makeContainer(n)]
          /\ locks' = [locks EXCEPT ![n] = settle(@, Last(@, "load"), "ok")]
          /\ pc' = [pc EXCEPT ![n] = "sleep1"]
          /\ UNCHANGED <<faults, err, sibs, schema>>
       \/ /\ dir[n]
          /\ pc' = [pc EXCEPT ![n] = "read"]
          /\ UNCHANGED <<locks, graph, dir, plain, faults, err, newDir, sibs, schema>>
       \/ /\ ~dir[n]
          /\ ~dir[Parent(n)] \/ CanFault
          /\ faults' = IF dir[Parent(n)] THEN faults + 1 ELSE faults
          /\ locks' = [locks EXCEPT ![n][Last(locks[n], "load")].io = "settled",
                                    ![n][Last(locks[n], "load")].res = "fail"]
          /\ Raise(n, StorageError("mkdir", n))
          /\ UNCHANGED <<graph, dir, plain, newDir>>
    /\ UNCHANGED <<index, rm, issued, file, fvars, cvars, uvars, schema>>

\* ensureContainer on EEXIST: readContainer completes, or fails and the container
\* is invented after all.
ensureContainerRead(n) ==
    /\ Quiet
    /\ pc[n] = "read"
    /\ IF dir[n] /\ index[n] # NoFile
       THEN /\ graph' = [graph EXCEPT ![n] = @ \cup index[n]]
            /\ UNCHANGED <<plain, newDir>>
       ELSE /\ graph' = [graph EXCEPT ![n] = @ \cup makeContainer(n)]
            /\ plain' = [plain EXCEPT ![n] = TRUE]
            /\ newDir' = [newDir EXCEPT ![n] = TRUE]
    /\ locks' = [locks EXCEPT ![n] = settle(@, Last(@, "load"), "ok")]
    /\ pc' = [pc EXCEPT ![n] = "sleep1"]
    /\ UNCHANGED <<dir, index, rm, faults, issued, file, fvars, cvars, uvars, err, sibs, schema>>

\* Container.ready resolves (the 20 ms timer of 68-72) and ManagedContainer's
\* loadOrCreate (132-149) runs: on a new directory it adds the binding
\* statements and calls writeContainer; otherwise parseShapeTreeInstance.
readyContainer(n) ==
    /\ Quiet
    /\ pc[n] = "sleep1"
    /\ IF newDir[n]
       THEN LET g == graph[n] \cup containerText(n, ShapeTreeUrl, InstancePath(n))
            IN  /\ graph' = [graph EXCEPT ![n] = g]
                /\ locks' = [locks EXCEPT ![n] = Append(@, begin(Ticket("promote", "inst"), g))]
                /\ pc' = [pc EXCEPT ![n] = "promote"]
       ELSE /\ locks' = [locks EXCEPT ![n] =
                            Append(@, settle(<<begin(Ticket("promote", "inst"), {})>>, 1, "ok")[1])]
            /\ pc' = [pc EXCEPT ![n] = "sleep2"]
            /\ UNCHANGED graph
    /\ UNCHANGED <<svars, issued, fvars, cvars, uvars, err, newDir, sibs, schema>>

\* ManagedContainer.loadOrCreate: await fileSystem.writeContainer(...) settles.
\* A rejection leaves loadOrCreate without unlock().
promoteDone(n) ==
    /\ Quiet
    /\ pc[n] = "promote"
    /\ LET k == Last(locks[n], "promote")
       IN  \/ /\ dir[n]
              /\ index' = [index EXCEPT ![n] = locks[n][k].snap]
              /\ locks' = [locks EXCEPT ![n] = settle(@, k, "ok")]
              /\ pc' = [pc EXCEPT ![n] = "sleep2"]
              /\ UNCHANGED <<faults, err, sibs, schema>>
           \/ /\ ~dir[n] \/ CanFault
              /\ faults' = IF dir[n] THEN faults + 1 ELSE faults
              /\ locks' = [locks EXCEPT ![n][k].io = "settled", ![n][k].res = "fail"]
              /\ Raise(n, StorageError("writeContainer", n))
              /\ UNCHANGED index
    /\ UNCHANGED <<graph, dir, plain, rm, issued, file, fvars, cvars, uvars, newDir, schema>>

\* ManagedContainer.ready resolves (the timer of 145-149) and instantiateStatic
\* enters its try block (336-347): parent.addMember, then one nested call per
\* statically labeled child, each run up to its mkdir.
instantiateStaticTry(n) ==
    /\ Quiet
    /\ pc[n] = "sleep2"
    /\ graph' = [graph EXCEPT ![Parent(n)] = addMember(@, Parent(n), n)]
    /\ pc' = [Started(pc, Labeled(n), "mkdir") EXCEPT ![n] = "children"]
    /\ locks' = [c \in Conts |-> IF c \in Labeled(n) THEN loadOrCreate(locks[c]) ELSE locks[c]]
    /\ UNCHANGED <<svars, issued, fvars, cvars, uvars, err, newDir, sibs, schema>>

\* The catch block's parent.removeMember(ret.url.href, stepNode.url) (352).
rollback(g, p, n) == removeMember(g, p, n)

\* A mutant: ret.remove() resolves at once and removes nothing.
catchRemoveNothing(n) ==
    [locks EXCEPT ![n] = Append(@, settle(<<begin(Ticket("remove", "inst"), {})>>, 1, "ok")[1])]

\* The catch block's await ret.remove() (351), up to its lock() call.
catchRemove(n) == remove(n, "inst")

\* Promise.all settles (338-349): with every child done, parent.write() is called
\* without await and ret returned; at the first child to fail, the catch block
\* calls ret.remove().
instantiateStaticSettle(n) ==
    /\ pc[n] = "children"
    /\ Resumable(n)
    /\ \/ /\ \A m \in Labeled(n) : pc[m] = "done"
          /\ locks' = write(Parent(n), "inst")
          /\ pc' = [pc EXCEPT ![n] = "done"]
          /\ UNCHANGED <<err, sibs>>
       \/ \E m \in Labeled(n) :
          /\ pc[m] = "failed"
          /\ locks' = catchRemove(n)
          /\ pc' = [pc EXCEPT ![n] = "removing"]
          /\ err' = [err EXCEPT ![n] = err[m]]
          /\ UNCHANGED sibs
    /\ UNCHANGED <<graph, svars, issued, fvars, cvars, uvars, newDir, schema>>

\* The catch block's re-raise (353-355).
rethrow(n, e) == IF e.managed THEN e ELSE ShapeTreeStructureError(n, e)

\* ret.remove() settles: on success removeMember and the re-raise; a rejection
\* of remove() leaves the catch block at once.
instantiateStaticCatch(n) ==
    /\ pc[n] = "removing"
    /\ Resumable(n)
    /\ IF locks[n][Last(locks[n], "remove")].res = "ok"
       THEN /\ graph' = [graph EXCEPT ![Parent(n)] = rollback(@, Parent(n), n)]
            /\ Raise(n, rethrow(n, err[n]))
       ELSE /\ Raise(n, StorageError("removeContainer", n))
            /\ UNCHANGED graph
    /\ UNCHANGED <<locks, svars, issued, fvars, cvars, uvars, newDir, schema>>

\* The call instantiateStatic(stepNode R, <P/R/>, '.', P) from outside.
CallInstantiateStatic ==
    /\ pc["R"] = "idle"
    /\ pc' = [pc EXCEPT !["R"] = "mkdir"]
    /\ locks' = [locks EXCEPT !["R"] = loadOrCreate(@)]
    /\ UNCHANGED <<graph, svars, issued, fvars, cvars, uvars, err, newDir, sibs, schema>>

\* No request, and no response yet.
NoReq == [method |-> "none", plant |-> FALSE, type |-> "none", fail |-> "none"]
NoResp == [status |-> "none", location |-> "none", ctype |-> "none", by |-> "none",
           body |-> "none"]

(***************************************************************************)
(* cachingFetch (bin/simple-apps.js 192-250).  A url is its origin, path   *)
(* and fragment; a string is the sequence of its characters, with the      *)
(* scheme and the host written as one word each.                           *)
(***************************************************************************)
\* Concurrent or successive calls of cachingFetch in one behaviour.
MaxFetches == 2

\* The characters [a-zA-Z0-9_-] of the model (249).
Word == {"http", "cache", "web", "a", "b", "f", "k", "v", "t", "date"}

\* The origin of this.cacheUrl, and a remote origin.
CacheOrigin == "cache"
Origins == {CacheOrigin, "web"}

Hashes == {<<>>, <<"f">>}

URL(o, p, h) == [origin |-> o, path |-> p, hash |-> h]

\* The targets of the calls: one resource of the cache's own origin, and the
\* remote resources /ab and /a/b, which differ only in a character cacheName
\* discards, the latter with and without a fragment.
Targets ==
    {URL(CacheOrigin, <<"a", "b">>, <<>>), URL("web", <<"a", "b">>, <<>>)}
        \cup {URL("web", <<"a", "/", "b">>, h) : h \in Hashes}

\* url.href
href(u) ==
    <<"http", ":", "/", "/", u.origin, "/">> \o u.path
        \o (IF u.hash = <<>> THEN <<>> ELSE <<"#">> \o u.hash)

\* new URL('/', url).href (199)
originOf(u) == href(URL(u.origin, <<>>, <<>>))

IsWord(ch) == ch \in Word

\* cacheName (246-250): copy.hash = '', then every character outside
\* [a-zA-Z0-9_-] is removed.
cacheName(u) == SelectSeq(href([u EXCEPT !.hash = <<>>]), IsWord)

CacheNames == {cacheName(u) : u \in Targets}

\* escape(s), character by character: a word character stands for itself, any
\* other Latin-1 character becomes %XX.
escape(s) ==
    [i \in 1..Len(s) |->
        CASE IsWord(s[i]) -> s[i]
          [] s[i] = ":" -> "%3A"
          [] s[i] = " " -> "%20"
          [] s[i] = "\n" -> "%0A"
          [] s[i] = "é" -> "%E9"
          [] OTHER -> s[i]]

\* Whether decodeURIComponent(s) throws a URIError: %E9 is no UTF-8 sequence.
malformed(s) == \E i \in 1..Len(s) : s[i] = "%E9"

\* decodeURIComponent(s) of a string that is not malformed.
decodeURIComponent(s) ==
    [i \in 1..Len(s) |->
        CASE s[i] = "%3A" -> ":"
          [] s[i] = "%20" -> " "
          [] s[i] = "%0A" -> "\n"
          [] OTHER -> s[i]]

\* The headers of a response: pairs of a name and a value, names unique.
Header(name, value) == <<<<name>>, value>>

\* pair[0].match(/date|time/) (208-210)
noise(pair) == \E i \in 1..Len(pair[1]) : pair[1][i] \in {"date", "time"}

kept(pair) == ~noise(pair)

\* Array.from(resp.headers).filter(...) reduced into a Map (208-214).
filterHeaders(hs) == SelectSeq(hs, kept)

RECURSIVE join(_)
\* lines.join('\n')
join(lines) ==
    IF lines = <<>> THEN <<>>
    ELSE IF Len(lines) = 1 THEN lines[1]
    ELSE lines[1] \o <<"\n">> \o join(Tail(lines))

\* `${escape(pair[0])}: ${escape(pair[1])}` (218-219)
headerLine(pair) == escape(pair[1]) \o <<":", " ">> \o escape(pair[2])

\* The image written to the cache (218-220).
imageOf(headers, text) ==
    join([i \in 1..Len(headers) |-> headerLine(headers[i])]) \o <<"\n", "\n">> \o text

\* s.indexOf(ch), counted from 1; 0 when absent.
indexOf(s, ch) ==
    IF \E i \in 1..Len(s) : s[i] = ch
    THEN CHOOSE i \in 1..Len(s) : s[i] = ch /\ \A j \in 1..(i - 1) : s[j] # ch
    ELSE 0

\* image.indexOf('\n\n') (232), counted from 1; 0 when absent.
endOfHeaders(image) ==
    LET At(i) == image[i] = "\n" /\ image[i + 1] = "\n"
    IN  IF \E i \in 1..(Len(image) - 1) : At(i)
        THEN CHOOSE i \in 1..(Len(image) - 1) : At(i) /\ \A j \in 1..(i - 1) : ~At(j)
        ELSE 0

RECURSIVE split(_)
\* s.split(/\n/): the empty string splits into one empty line.
split(s) ==
    LET i == indexOf(s, "\n")
    IN  IF i = 0 THEN <<s>>
        ELSE <<SubSeq(s, 1, i - 1)>> \o split(SubSeq(s, i + 1, Len(s)))

\* line.match(/^([^:]+): (.*)$/) (235): the key runs to the first colon, is not
\* empty, and a space follows the colon; null otherwise.
matches(line) ==
    LET i == indexOf(line, ":")
    IN  i > 1 /\ i < Len(line) /\ line[i + 1] = " "

matchKey(line) == SubSeq(line, 1, indexOf(line, ":") - 1)
matchVal(line) == SubSeq(line, indexOf(line, ":") + 2, Len(line))

\* The FakeResponse (36-44) a call resolves with, or the error it rejects with.
FakeResponse(headers, text) == [ok |-> TRUE, error |-> "none", headers |-> headers, text |-> text]
Rejected(e) == [ok |-> FALSE, error |-> e, headers |-> <<>>, text |-> <<>>]
NoResult == [ok |-> FALSE, error |-> "pending", headers |-> <<>>, text |-> <<>>]

\* The cache hit (230-239): the image is cut at the first blank line, and each
\* header line is matched and decoded.  A line that does not match makes
\* null.map a TypeError; a malformed escape makes decodeURIComponent throw.
parseImage(image) ==
    LET eoh == endOfHeaders(image)
        text == SubSeq(image, eoh + 2, Len(image))
        lines == split(SubSeq(image, 1, eoh - 1))
    IN  IF \E i \in 1..Len(lines) : ~matches(lines[i]) THEN Rejected("TypeError")
        ELSE IF \E i \in 1..Len(lines) : malformed(lines[i]) THEN Rejected("URIError")
        ELSE FakeResponse(
                 [i \in 1..Len(lines) |->
                     <<decodeURIComponent(matchKey(lines[i])),
                       decodeURIComponent(matchVal(lines[i]))>>],
                 text)

\* The responses of the network: their headers and their body.
HeaderSets ==
    { <<Header("date", <<"t">>)>>,
      <<Header("date", <<"t">>), Header("k", <<"v", ":", " ", "v">>)>>,
      <<Header("k", <<"é">>)>> }
Bodies == { <<"a">>, <<"a", "\n", "\n", "b">> }
Responses == {[headers |-> h, text |-> t] : h \in HeaderSets, t \in Bodies}

\* The file of a cache name: absent, or the image a call wrote and the response
\* the call that wrote it resolved with.
NoEntry == [here |-> FALSE, image |-> <<>>, from |-> NoResult]

\* A call of cachingFetch before it is made.  got is the response of the miss
\* that wrote the image the call writes or reads.
NoCall == [pc |-> "idle", url |-> URL("web", <<>>, <<>>), via |-> "none", got |-> NoResult,
           image |-> <<>>, result |-> NoResult, later |-> FALSE]

\* No call of a library function, and no outcome yet.
NoUnit == [fn |-> "none"]
NoOutcome == [done |-> FALSE, step |-> 0]

(***************************************************************************)
(* SpecMutex: calls from outside on the Container instance P.              *)
(***************************************************************************)

InitCommon ==
    /\ locks = [c \in Conts |-> <<>>]
    /\ rm = [c \in Conts |-> <<>>]
    /\ plain = [c \in Conts |-> FALSE]
    /\ faults = 0
    /\ issued = 0
    /\ pc = [n \in Nodes |-> "idle"]
    /\ err = [n \in Nodes |-> NoErr]
    /\ newDir = [n \in Nodes |-> FALSE]
    /\ sibs = [n \in Nodes |-> {}]
    /\ file = FALSE
    /\ req = NoReq
    /\ fpc = "idle"
    /\ resp = NoResp
    /\ ferr = NoErr
    /\ calls = <<>>
    /\ registered = <<>>
    /\ validated = "none"
    /\ ret = NoResp
    /\ location = "none"
    /\ reused = FALSE
    /\ served = <<>>
    /\ caught = NoErr
    /\ rstat = "none"
    /\ cache = [k \in CacheNames |-> NoEntry]
    /\ cf = [i \in 1..MaxFetches |-> NoCall]
    /\ net = <<>>
    /\ stores = [k \in CacheNames |-> 0]
    /\ outcome = NoOutcome

\* The schemas instantiated: a root with two labeled children, and a root with
\* a labeled child that has a labeled child of its own.
Schemas == {{"R", "A", "B"}, {"R", "A", "C"}}

\* P was opened by loadContainer (197-203): its statement-set is the index file's.
\* A plain container R may exist under it.
InitMutex ==
    /\ InitCommon
    /\ web = {}
    /\ unit = NoUnit
    /\ \E r \in BOOLEAN :
        /\ dir = [c \in Conts |-> c = "P" \/ (c = "R" /\ r)]
        /\ index = [c \in Conts |-> IF c = "P" \/ (c = "R" /\ r)
                                     THEN makeContainer(c) ELSE NoFile]
    /\ graph = [c \in Conts |-> IF c = "P" THEN makeContainer(c) ELSE {}]
    /\ schema = {"R"}

CallWrite ==
    /\ issued < MaxCalls
    /\ locks' = write("P", "env")
    /\ issued' = issued + 1
    /\ UNCHANGED <<graph, svars, ivars, fvars, cvars, uvars>>

CallRemove ==
    /\ issued < MaxCalls
    /\ locks' = remove("P", "env")
    /\ issued' = issued + 1
    /\ UNCHANGED <<graph, svars, ivars, fvars, cvars, uvars>>

\* A bare lock() call on P's Mutex, and the invocation of its unlock function.
CallLock ==
    /\ issued < MaxCalls
    /\ locks' = [locks EXCEPT !["P"] = lock(@, Ticket("lock", "env"))]
    /\ issued' = issued + 1
    /\ UNCHANGED <<graph, svars, ivars, fvars, cvars, uvars>>

CallUnlock ==
    \E k \in Held(locks["P"]) :
        /\ locks["P"][k].op = "lock"
        /\ locks' = [locks EXCEPT !["P"] = unlockNext(@, k, "ok")]
        /\ UNCHANGED <<graph, svars, issued, fvars, cvars, uvars, ivars>>

CallAddMember ==
    /\ graph' = [graph EXCEPT !["P"] = addMember(@, "P", "R")]
    /\ UNCHANGED <<locks, svars, issued, fvars, cvars, uvars, ivars>>

CallRemoveMember ==
    /\ graph' = [graph EXCEPT !["P"] = removeMember(@, "P", "R")]
    /\ UNCHANGED <<locks, svars, issued, fvars, cvars, uvars, ivars>>

NextMutex ==
    \/ CallWrite \/ CallRemove \/ CallLock \/ CallUnlock
    \/ CallAddMember \/ CallRemoveMember
    \/ Grant("P")
    \/ writeContainerDone("P")
    \/ removeContainerReaddir("P")
    \/ removeContainerEntry("P")
    \/ removeContainerRmdir("P")

SpecMutex == InitMutex /\ [][NextMutex]_vars

\* The same calls under the scheduling of the event loop: the continuation of a
\* resolved promise runs (Grant), a Storage call in flight settles, and the
\* caller of a bare lock() that was granted invokes its unlock function.
SpecMutexFair ==
    /\ SpecMutex
    /\ WF_vars(Grant("P"))
    /\ WF_vars(CallUnlock)
    /\ WF_vars(writeContainerDone("P"))
    /\ WF_vars(removeContainerReaddir("P"))
    /\ WF_vars(removeContainerEntry("P"))
    /\ WF_vars(removeContainerRmdir("P"))

\* The write() calls among a queue's tickets.
Writes(q) == {k \in 1..Len(q) : q[k].op = "write"}

\* C1: the writes issued on one Container call Storage in the order they were
\* issued and one at a time: when a write() has called writeContainer, the
\* writeContainer of every write() issued before it on that Container has
\* settled, with success or with failure.
C1_WritesInOrder ==
    \A c \in Conts : \A k \in Writes(locks[c]) :
        locks[c][k].io # "idle" =>
            \A j \in Writes(locks[c]) : j < k => locks[c][j].io = "settled"

\* Two write() calls were issued on P; the first one's writeContainer failed and
\* the second one's is in flight.
C1_Witness ==
    \E j, k \in Writes(locks["P"]) :
        /\ j < k
        /\ locks["P"][j].io = "settled" /\ locks["P"][j].res = "fail"
        /\ locks["P"][k].io = "begun"

\* C2: the Mutex has at most one holder at a time and grants in the order of the
\* lock() calls: a lock() call has been granted only when the unlock function of
\* every earlier lock() call on that Mutex has been invoked.
C2_MutualExclusion ==
    \A c \in Conts :
        /\ Cardinality(Held(locks[c])) <= 1
        /\ \A k \in 1..Len(locks[c]) :
              locks[c][k].st # "queued" =>
                  \A j \in 1..(k - 1) : locks[c][j].st = "released"

\* Three lock() calls on P: the first released, the second holds the Mutex, the
\* third waits.
C2_Witness ==
    /\ Len(locks["P"]) = 3
    /\ locks["P"][1].st = "released"
    /\ locks["P"][2].st = "held"
    /\ locks["P"][3].st = "queued"

(***************************************************************************)
(* SpecInst: one call of instantiateStatic for the schema R { A, B } or    *)
(* R { A { C } } under the container P, on a Storage that may fail.        *)
(***************************************************************************)
InitInst ==
    /\ InitCommon
    /\ web = {}
    /\ unit = NoUnit
    /\ \E r \in BOOLEAN :
        /\ dir = [c \in Conts |-> c = "P" \/ (c = "R" /\ r)]
        /\ index = [c \in Conts |-> IF c = "P" \/ (c = "R" /\ r)
                                     THEN makeContainer(c) ELSE NoFile]
    /\ graph = [c \in Conts |-> IF c = "P" THEN makeContainer(c) ELSE {}]
    /\ schema \in Schemas

StorageStep(c) ==
    \/ Grant(c)
    \/ writeContainerDone(c)
    \/ removeContainerReaddir(c)
    \/ removeContainerEntry(c)
    \/ removeContainerRmdir(c)

InstStep(n) ==
    \/ ensureContainerMkdir(n)
    \/ ensureContainerRead(n)
    \/ makeContainerLands(n)
    \/ readyContainer(n)
    \/ promoteDone(n)
    \/ instantiateStaticTry(n)
    \/ instantiateStaticSettle(n)
    \/ instantiateStaticCatch(n)

NextInst ==
    \/ CallInstantiateStatic
    \/ \E c \in Conts : StorageStep(c)
    \/ \E n \in Nodes : InstStep(n)

SpecInst == InitInst /\ [][NextInst]_vars

\* The top-level call has returned or raised, every nested call has returned or
\* raised, and no Storage call and no continuation is pending.
Settled ==
    /\ pc["R"] \in {"done", "failed"}
    /\ \A n \in Nodes : pc[n] \in {"idle", "done", "failed"}
    /\ \A c \in Conts : Begun(locks[c]) = {} /\ ~plain[c]
    /\ Quiet

C4_SiblingsRemain ==
    pc["R"] = "failed" =>
        \A n \in Nodes : \A m \in sibs[n] : dir[m]

\* The ret.remove() of the catch block of the call for n.
Rollback(n) == locks[n][Last(locks[n], "remove")]
RollbackBegun(n) ==
    /\ \E k \in 1..Len(locks[n]) : locks[n][k].op = "remove"
    /\ Rollback(n).io # "idle"

\* The schema steps above m.
Ancestors(m) == {Parent(m), Parent(Parent(m)), Parent(Parent(Parent(m)))} \cap Nodes

\* C4, amended: the siblings that were complete when a child failed are left
\* alone by the failing child's own rollback: they exist as long as no call for
\* a step above them has begun the rollback of its container.  The rollback of
\* the enclosing call removes the parent's container with everything in it:
\* once it has succeeded and the enclosing call has raised, these siblings no
\* longer exist.
C4_SiblingsUntilEnclosingRollback ==
    \A n \in Nodes : \A m \in sibs[n] :
        /\ (\A a \in Ancestors(m) : ~RollbackBegun(a)) => dir[m]
        /\ (pc[Parent(n)] = "failed" /\ RollbackBegun(Parent(n))
                /\ Rollback(Parent(n)).res = "ok") => ~dir[m]

\* A failed while B was complete; the rollback of R succeeded, R's call has
\* raised, and B is gone.
C4_Witness ==
    /\ "B" \in sibs["A"]
    /\ pc["R"] = "failed"
    /\ RollbackBegun("R") /\ Rollback("R").res = "ok"
    /\ ~dir["B"]

\* C5: every error an instantiateStatic call raises is a managed error; one
\* that was not managed when caught is a ShapeTreeStructureError naming the
\* call's root.
C5_ErrorsManaged ==
    \A n \in Nodes :
        pc[n] = "failed" =>
            /\ err[n].managed
            /\ err[n].name = "ShapeTreeStructureError"

(***************************************************************************)
(* shapeTreeFetch (lib/shape-tree-fetch.js 60-203) with its collaborators: *)
(* the Ecosystem (ecosystems/simple-apps.js) and the next fetch.           *)
(***************************************************************************)
\* The requests: a plant POST to P with slug R, a POST of R to P, a PUT of P/R,
\* and the verbs passed through, on P.  fail names the collaborator that fails
\* on the request's input: the payload does not parse, the schema cannot be
\* fetched, the payload names no application, registration fails, the name
\* matches no step, the payload does not validate, nested instantiation or
\* promotion of the created container fails.
Requests ==
    [method : {"POST"}, plant : {TRUE}, type : {"Container"},
     fail : {"none", "parseRdf", "fetch", "parseInstatiationPayload", "registerInstance"}]
    \cup [method : {"POST"}, plant : {FALSE}, type : {"Container"},
          fail : {"none", "matchingStep", "validate", "dirMaker", "asManagedContainer"}]
    \cup [method : {"PUT"}, plant : {FALSE}, type : {"Container"},
          fail : {"none", "matchingStep", "validate", "dirMaker"}]
    \cup [method : {"POST", "PUT"}, plant : {FALSE}, type : {"Resource"},
          fail : {"none", "matchingStep", "validate"}]
    \cup [method : {"GET", "DELETE", "PATCH"}, plant : {FALSE}, type : {"none"},
          fail : {"none"}]

\* The url of the call: the container posted to, or the target of a PUT.
Url(r) == IF r.method = "PUT" THEN "R" ELSE "P"

\* throwIfNotFound's error (232-238).
NotFoundError ==
    [managed |-> TRUE, name |-> "NotFoundError", root |-> "none", msg |-> <<>>,
     status |-> "404"]

\* A ManagedError of lib/errors, which carries its own status.
ManagedError(name) ==
    [managed |-> TRUE, name |-> name, root |-> "none", msg |-> <<>>, status |-> "own"]

\* An Error raised by a collaborator: not a ManagedError, no status.
Error(what) ==
    [managed |-> FALSE, name |-> "Error", root |-> "none", msg |-> <<what>>,
     status |-> "none"]

\* errorResponse (298-308): the JSON text of message, error and stack, the
\* Content-type application/json, and the status of the error.
errorResponse(e) ==
    [status |-> e.status, location |-> "none", ctype |-> "application/json",
     by |-> "error",
     body |-> [message |-> e.msg, error |-> e, stack |-> <<e.name, e.msg>>]]

\* A mutant: the catch block hands every error to errorResponse as it is.
catchAllAsIs(e) == errorResponse(e)

\* The catch block of shapeTreeFetch (191-202): e.status = e.status || 500 on an
\* error that is not managed.
catchAll(e) ==
    errorResponse(IF e.managed THEN e
                  ELSE [e EXCEPT !.status = IF @ = "none" THEN "500" ELSE @])

\* A mutant: loadContainer makes a ManagedContainer of every container.
isManagedAlways(g, c) == TRUE

\* loadContainer (lib/shape-tree.js 197-203): a ManagedContainer when the
\* statements read hold a shapeTreeInstanceRoot of the container.
isManaged(g, c) == \E t \in g : t[1] = c /\ t[2] = "shapeTreeInstanceRoot"

\* Ecosystem.indexInstalledShapeTree (simple-apps.js 111-114).
indexInstalledShapeTree(g, instanceUrl, shapeTreeUrl) ==
    g \cup {<<instanceUrl, "shapeTreeRoot", shapeTreeUrl>>}

\* Ecosystem.reuseShapeTree (simple-apps.js 129-132): the subject of a
\* shapeTreeRoot statement for the schema in the parent's statement-set.
reuseShapeTree(g, shapeTreeUrl) ==
    LET qs == {t \in g : t[2] = "shapeTreeRoot" /\ t[3] = shapeTreeUrl}
    IN  IF qs = {} THEN "none" ELSE (CHOOSE t \in qs : TRUE)[1]

\* A mutant: the instance is planted whatever reuseShapeTree reported.
mustPlantAlways(l) == TRUE

\* if (location) ... else plant (95-106).
mustPlant(l) == l = "none"

\* postedContainer.validatePayload: the requested name is matched against the
\* steps of the parent's schema, then the payload validated against the step's
\* shape.
validatePayload(r) ==
    CASE r.fail = "matchingStep" -> "noMatch"
      [] r.fail = "validate" -> "invalid"
      [] OTHER -> "ok"

\* The error validatePayload raises (lib/shape-tree.js 300-303, 380).
validateError(v) ==
    IF v = "noMatch" THEN ManagedError("UriTemplateMatchError")
    ELSE ManagedError("ValidationError")

\* A mutant: the write is forwarded whatever validatePayload found.
forwardsUnchecked(v) == TRUE

\* const ret = await nextFetch(url, options) is reached only when
\* await postedContainer.validatePayload(...) did not raise (126-129, 168-170).
forwards(v) == v = "ok"

\* The url of the compensating nextFetch(url, { method: 'DELETE' }) (141).
compensationUrl(r) == Url(r)

\* A call of nextFetch.
Call(method, url, by) == [method |-> method, url |-> url, by |-> by]
LastCall == calls[Len(calls)]

\* shapeTreeFetch resolves with a response, goes on to its next await, or (on a
\* POST) enters the catch block of 140-143 with the compensating DELETE.
Return(r) == resp' = r /\ fpc' = "done" /\ UNCHANGED <<ferr, calls, caught>>
Proceed(p) == fpc' = p /\ UNCHANGED <<resp, ferr, calls, caught>>
Forward(by) ==
    /\ calls' = Append(calls, Call(req.method, Url(req), by))
    /\ fpc' = by
    /\ UNCHANGED <<resp, ferr, caught>>

\* An error is raised into the catch block of 191-202, which resolves the call
\* with its error response.
Catch(e) ==
    /\ caught' = e
    /\ resp' = catchAll(e)
    /\ fpc' = "done"
    /\ UNCHANGED <<ferr, calls>>

Fail(e) ==
    IF req.method = "POST"
    THEN /\ ferr' = e
         /\ calls' = Append(calls, Call("DELETE", compensationUrl(req), "compensate"))
         /\ fpc' = "compensate"
         /\ UNCHANGED <<resp, caught>>
    ELSE Catch(e)

\* parseInstatiationPayload (simple-apps.js 181-188) and the call of
\* registerInstance (109-111).
Register(l) ==
    IF req.fail = "parseInstatiationPayload"
    THEN /\ resp' = catchAll(Error("parseInstatiationPayload"))
         /\ caught' = Error("parseInstatiationPayload")
         /\ fpc' = "done"
         /\ UNCHANGED registered
    ELSE /\ registered' = Append(registered, l)
         /\ fpc' = "register"
         /\ UNCHANGED <<resp, caught>>

\* shapeTreeFetch(url, options) is called: rstatOrNull(requestUrl) begins (67).
CallFetch ==
    /\ fpc = "idle"
    /\ \E r \in Requests : req' = r
    /\ fpc' = "rstat"
    /\ UNCHANGED <<locks, graph, svars, issued, cvars, uvars, ivars>>
    /\ UNCHANGED <<resp, ferr, calls, registered, validated, ret, location, reused, served,
                   caught, rstat>>

\* Whether Storage holds a resource at the url.
exists(u) == IF u = "R" THEN dir["R"] \/ file ELSE dir[u]

\* rstatOrNull (242-248): the stat of the resource, or null when storage.rstat
\* rejects, for a missing resource or for any other failure.
rstatOrNull(u) ==
    (IF exists(u) THEN {"stat"} ELSE {}) \cup (IF ~exists(u) \/ CanFault THEN {"null"} ELSE {})

\* A mutant: throwIfNotFound never raises.
throwIfNotFoundNever(st) == FALSE

\* throwIfNotFound (232-238) raises unless its first argument is truthy.
throwIfNotFound(st) == st = "null"

\* rstatOrNull settles and the switch is entered (67-78, 148-155, 179-189): a
\* POST to a missing container is a 404, a POST loads the container posted to;
\* a PUT hands throwIfNotFound the promise of rstatOrNull(parentUrl), which it
\* does not await (151-152), and loads the parent; any other verb is passed to
\* nextFetch.
fetchRstat ==
    /\ Quiet
    /\ fpc = "rstat"
    /\ \E st \in rstatOrNull(Url(req)) :
        /\ rstat' = st
        /\ faults' = IF st = "null" /\ exists(Url(req)) THEN faults + 1 ELSE faults
        /\ IF req.method = "POST"
           THEN IF throwIfNotFound(st) THEN Catch(NotFoundError) ELSE Proceed("load")
           ELSE IF req.method = "PUT"
           THEN IF throwIfNotFound("promise") THEN Catch(NotFoundError) ELSE Proceed("load")
           ELSE Forward("pass")
    /\ UNCHANGED <<locks, graph, dir, index, plain, rm, file, issued, cvars, uvars, ivars>>
    /\ UNCHANGED <<req, registered, validated, ret, location, reused, served>>

\* The dispatcher runs with SHAPETREE=fetch (NoShapeTrees false, 41, 76-78).
\* ShapeTree.loadContainer of the container posted to settles (78, 155):
\* a plant request goes on to parse its payload, a request to an unmanaged
\* container is passed to nextFetch, one to a managed container is validated.
fetchLoad ==
    /\ Quiet
    /\ fpc = "load"
    /\ \/ /\ dir["P"] /\ index["P"] # NoFile
          /\ graph' = [graph EXCEPT !["P"] = index["P"]]
          /\ IF req.plant THEN Proceed("parse")
             ELSE IF isManaged(index["P"], "P") THEN Proceed("validate")
             ELSE Forward("pass")
          /\ UNCHANGED faults
       \/ /\ ~(dir["P"] /\ index["P"] # NoFile) \/ CanFault
          /\ faults' = IF dir["P"] /\ index["P"] # NoFile THEN faults + 1 ELSE faults
          /\ Catch(StorageError("readContainer", "P"))
          /\ UNCHANGED graph
    /\ UNCHANGED <<locks, dir, index, plain, rm, file, issued, cvars, uvars, ivars>>
    /\ UNCHANGED <<req, rstat, registered, validated, ret, location, reused, served>>

\* The name the instance is planted under: the slug (81, 99).
requestedName(r) == "R"

\* rdfInterface.parseRdf settles (89), then Ecosystem.reuseShapeTree (94): a
\* reported instance is reused and the payload handed to the Ecosystem (109-111);
\* otherwise plantShapeTreeInstance begins with the fetch of the schema (219-220).
fetchParsed ==
    /\ Quiet
    /\ fpc = "parse"
    /\ IF req.fail = "parseRdf"
       THEN /\ Catch(Error("parseRdf"))
            /\ UNCHANGED <<registered, location, reused>>
       ELSE LET l == reuseShapeTree(graph["P"], ShapeTreeUrl)
            IN  /\ reused' = (l # "none")
                /\ IF mustPlant(l)
                   THEN /\ Proceed("schema")
                        /\ location' = requestedName(req)
                        /\ UNCHANGED registered
                   ELSE /\ location' = l
                        /\ Register(l)
                        /\ UNCHANGED <<ferr, calls>>
    /\ UNCHANGED <<locks, graph, svars, issued, cvars, uvars, ivars, req, rstat, validated, ret,
                   served>>

\* shapeTree.fetch() settles (220) and instantiateStatic is called (223).
fetchSchema ==
    /\ Quiet
    /\ fpc = "schema"
    /\ IF req.fail = "fetch"
       THEN /\ Catch(Error("fetch"))
            /\ UNCHANGED <<pc, locks>>
       ELSE /\ pc' = [pc EXCEPT ![location] = "mkdir"]
            /\ locks' = [locks EXCEPT ![location] = loadOrCreate(@)]
            /\ Proceed("plant")
    /\ UNCHANGED <<graph, svars, issued, cvars, uvars, err, newDir, sibs, schema>>
    /\ UNCHANGED <<req, rstat, registered, validated, ret, location, reused, served>>

\* instantiateStatic settles (223): on success indexInstalledShapeTree and
\* postedContainer.write() (224-225); an error goes to the catch block.
fetchPlanted ==
    /\ fpc = "plant"
    /\ FetchResumable
    /\ IF pc[location] = "failed"
       THEN /\ Catch(err[location])
            /\ UNCHANGED <<graph, locks>>
       ELSE /\ graph' = [graph EXCEPT !["P"] =
                            indexInstalledShapeTree(@, location, ShapeTreeUrl)]
            /\ locks' = write("P", "fetch")
            /\ Proceed("plantWrite")
    /\ UNCHANGED <<svars, issued, cvars, uvars, ivars>>
    /\ UNCHANGED <<req, rstat, registered, validated, ret, location, reused, served>>

\* plantShapeTreeInstance's postedContainer.write() settles (225) and the
\* location is returned to the dispatcher, which indexes the instance and writes
\* the container posted to once more (99-104).
fetchPlantWritten ==
    /\ fpc = "plantWrite"
    /\ FetchResumable
    /\ IF locks["P"][Last(locks["P"], "write")].res = "ok"
       THEN /\ graph' = [graph EXCEPT !["P"] =
                            indexInstalledShapeTree(@, location, ShapeTreeUrl)]
            /\ locks' = write("P", "fetch")
            /\ Proceed("indexWrite")
       ELSE /\ Catch(StorageError("writeContainer", "P"))
            /\ UNCHANGED <<graph, locks>>
    /\ UNCHANGED <<svars, issued, cvars, uvars, ivars>>
    /\ UNCHANGED <<req, rstat, registered, validated, ret, location, reused, served>>

\* The dispatcher's postedContainer.write() settles (104): the payload is handed
\* to the Ecosystem (109-111).
fetchIndexWritten ==
    /\ fpc = "indexWrite"
    /\ FetchResumable
    /\ IF locks["P"][Last(locks["P"], "write")].res = "ok"
       THEN /\ Register(location)
            /\ UNCHANGED <<ferr, calls>>
       ELSE /\ Catch(StorageError("writeContainer", "P"))
            /\ UNCHANGED registered
    /\ UNCHANGED <<locks, graph, svars, issued, cvars, uvars, ivars>>
    /\ UNCHANGED <<req, rstat, validated, ret, location, reused, served>>

\* The response of a plant (114-118).
planted(l) ==
    [status |-> "201", location |-> l, ctype |-> "text/turtle", by |-> "dispatcher",
     body |-> "rebased"]

\* Ecosystem.registerInstance settles (111-118).
fetchRegistered ==
    /\ Quiet
    /\ fpc = "register"
    /\ IF req.fail = "registerInstance"
       THEN Catch(Error("registerInstance"))
       ELSE Return(planted(location))
    /\ UNCHANGED <<locks, graph, svars, issued, cvars, uvars, ivars>>
    /\ UNCHANGED <<req, rstat, registered, validated, ret, location, reused, served>>

\* postedContainer.validatePayload settles (126-129, 168-170).
fetchValidated ==
    /\ Quiet
    /\ fpc = "validate"
    /\ LET v == validatePayload(req)
       IN  /\ validated' = v
           /\ IF forwards(v)
              THEN Forward("forward")
              ELSE Catch(validateError(v))
    /\ UNCHANGED <<locks, graph, svars, issued, cvars, uvars, ivars>>
    /\ UNCHANGED <<req, rstat, registered, ret, location, reused, served>>

(***************************************************************************)
(* The next fetch: the LDP server in front of the same Storage.  A call    *)
(* is served, answered with an error status, or rejected.                  *)
(***************************************************************************)
\* Whether c is the container u or lies in it.
Under(c, u) ==
    \/ c = u
    \/ Parent(c) = u
    \/ Parent(Parent(c)) = u
    \/ Parent(Parent(Parent(c))) = u

\* The server can serve the call: the container posted to exists and the name
\* is free, the parent of a PUT exists, the resource read or deleted exists.
Servable(call) ==
    CASE call.method = "POST" -> dir["P"] /\ ~dir["R"] /\ ~file
      [] call.method = "PUT" -> dir["P"]
      [] OTHER -> dir[call.url]

Outcomes(call) == {"status", "reject"} \cup (IF Servable(call) THEN {"ok"} ELSE {})

\* The errors the next fetch rejects with: an Error, which may carry a status of
\* its own.
Rejections == {Error("nextFetch"), [Error("nextFetch") EXCEPT !.status = "502"]}

\* What serving the call does to Storage.
serve(call, o) ==
    IF o = "ok" /\ call.method \in {"POST", "PUT"} /\ req.type = "Container"
    THEN /\ dir' = [dir EXCEPT !["R"] = TRUE]
         /\ index' = [index EXCEPT !["R"] = IF @ = NoFile THEN makeContainer("R") ELSE @]
         /\ UNCHANGED file
    ELSE IF o = "ok" /\ call.method \in {"POST", "PUT"}
    THEN /\ file' = TRUE
         /\ UNCHANGED <<dir, index>>
    ELSE IF o = "ok" /\ call.method = "DELETE"
    THEN /\ dir' = [c \in Conts |-> dir[c] /\ ~Under(c, call.url)]
         /\ index' = [c \in Conts |-> IF Under(c, call.url) THEN NoFile ELSE index[c]]
         /\ file' = (file /\ call.url # "P")
    ELSE UNCHANGED <<dir, index, file>>

\* The response of the next fetch.
response(call, o) ==
    IF o = "ok"
    THEN [status |-> IF call.method \in {"POST", "PUT"} THEN "201" ELSE "200",
          location |-> IF call.method = "POST" THEN "R" ELSE "none",
          ctype |-> "text/turtle", by |-> "next", body |-> "text"]
    ELSE [status |-> "409", location |-> "none", ctype |-> "text/plain",
          by |-> "next", body |-> "text"]

\* return nextFetch(url, options) (121, 157, 180, 184, 189): the promise
\* shapeTreeFetch returned settles as the next fetch's does.
nextFetchPass ==
    /\ Quiet
    /\ fpc = "pass"
    /\ \E o \in Outcomes(LastCall) :
        /\ serve(LastCall, o)
        /\ served' = Append(served, o)
        /\ IF o = "reject"
           THEN fpc' = "rejected" /\ UNCHANGED resp
           ELSE fpc' = "done" /\ resp' = response(LastCall, o)
    /\ UNCHANGED <<locks, graph, plain, rm, faults, issued, cvars, uvars, ivars>>
    /\ UNCHANGED <<req, rstat, ferr, calls, registered, validated, ret, location, reused, caught>>

\* const ret = await nextFetch(url, options) settles (129-134, 170-175).
nextFetchForward ==
    /\ Quiet
    /\ fpc = "forward"
    /\ \E o \in Outcomes(LastCall) :
        LET r == response(LastCall, o)
        IN  /\ serve(LastCall, o)
            /\ served' = Append(served, o)
            /\ ret' = IF o = "reject" THEN ret ELSE r
            /\ IF o = "reject"
               THEN (\E e \in Rejections : Catch(e)) /\ UNCHANGED location
               ELSE IF req.type = "Resource"
               THEN Return(r) /\ UNCHANGED location
               ELSE IF req.method = "PUT"
               THEN Proceed("created") /\ location' = Url(req)
               ELSE IF r.location # "none"
               THEN Proceed("created") /\ location' = r.location
               ELSE Fail(Error("TypeError")) /\ UNCHANGED location
    /\ UNCHANGED <<locks, graph, plain, rm, faults, issued, cvars, uvars, ivars>>
    /\ UNCHANGED <<req, rstat, registered, validated, reused>>

\* await nextFetch(url, { method: 'DELETE' }) settles; throw e (141-142).
nextFetchCompensate ==
    /\ Quiet
    /\ fpc = "compensate"
    /\ \E o \in Outcomes(LastCall) :
        /\ serve(LastCall, o)
        /\ served' = Append(served, o)
        /\ IF o = "reject"
           THEN \E e \in Rejections : Catch(e)
           ELSE Catch(ferr)
    /\ UNCHANGED <<locks, graph, plain, rm, faults, issued, cvars, uvars, ivars>>
    /\ UNCHANGED <<req, rstat, registered, validated, ret, location, reused>>

\* ShapeTree.loadContainer of the created container settles (134, 173).
fetchCreated ==
    /\ Quiet
    /\ fpc = "created"
    /\ \/ /\ dir[location] /\ index[location] # NoFile
          /\ graph' = [graph EXCEPT ![location] = index[location]]
          /\ Proceed("dirMaker")
          /\ UNCHANGED faults
       \/ /\ ~(dir[location] /\ index[location] # NoFile) \/ CanFault
          /\ faults' = IF dir[location] /\ index[location] # NoFile
                       THEN faults + 1 ELSE faults
          /\ Fail(StorageError("readContainer", location))
          /\ UNCHANGED graph
    /\ UNCHANGED <<locks, dir, index, plain, rm, file, issued, cvars, uvars, ivars>>
    /\ UNCHANGED <<req, rstat, registered, validated, ret, location, reused, served>>

\* dirMaker(created) settles (135, 173): the nested static instantiation.
fetchDirMaker ==
    /\ Quiet
    /\ fpc = "dirMaker"
    /\ IF req.fail = "dirMaker"
       THEN Fail(ManagedError("ShapeTreeStructureError"))
       ELSE IF req.method = "PUT"
       THEN Return(ret)
       ELSE Proceed("asManaged")
    /\ UNCHANGED <<locks, graph, svars, issued, cvars, uvars, ivars>>
    /\ UNCHANGED <<req, rstat, registered, validated, ret, location, reused, served>>

\* created.asManagedContainer(shapeTreeUrl, newShapeTreeInstancePath) settles
\* and created.write() is called (136-138).
fetchAsManaged ==
    /\ Quiet
    /\ fpc = "asManaged"
    /\ IF req.fail = "asManagedContainer"
       THEN /\ Fail(Error("asManagedContainer"))
            /\ UNCHANGED <<graph, locks>>
       ELSE /\ graph' = [graph EXCEPT ![location] =
                            @ \cup containerText(location, ShapeTreeUrl, <<".", location>>)]
            /\ locks' = write(location, "fetch")
            /\ Proceed("createdWrite")
    /\ UNCHANGED <<svars, issued, cvars, uvars, ivars>>
    /\ UNCHANGED <<req, rstat, registered, validated, ret, location, reused, served>>

\* created.write() settles (138-144).
fetchCreatedWritten ==
    /\ fpc = "createdWrite"
    /\ FetchResumable
    /\ IF locks["R"][Last(locks["R"], "write")].res = "ok"
       THEN Return(ret)
       ELSE Fail(StorageError("writeContainer", "R"))
    /\ UNCHANGED <<locks, graph, svars, issued, cvars, uvars, ivars>>
    /\ UNCHANGED <<req, rstat, registered, validated, ret, location, reused, served>>

(***************************************************************************)
(* SpecFetch: one call of shapeTreeFetch on a Storage that may fail.       *)
(***************************************************************************)
\* A container's index file with the binding statements of an instance.
Binding(c, path) == makeContainer(c) \cup containerText(c, ShapeTreeUrl, path)

\* P before the call: absent, a plain container, a Managed Container of the
\* schema, or a plain container that indexes the instance R of the schema.
InitFetch ==
    /\ InitCommon
    /\ web = {}
    /\ unit = NoUnit
    /\ schema \in {{"R"}, {"R", "A"}}
    /\ graph = [c \in Conts |-> {}]
    /\ \E k \in {"absent", "plain", "managed", "planted"} :
        /\ dir = [c \in Conts |-> (c = "P" /\ k # "absent") \/ (c = "R" /\ k = "planted")]
        /\ index = [c \in Conts |->
                      IF c = "P" /\ k = "plain" THEN makeContainer("P")
                      ELSE IF c = "P" /\ k = "managed" THEN Binding("P", ".")
                      ELSE IF c = "P" /\ k = "planted"
                      THEN indexInstalledShapeTree(
                               addMember(makeContainer("P"), "P", "R"), "R", ShapeTreeUrl)
                      ELSE IF c = "R" /\ k = "planted" THEN Binding("R", ".")
                      ELSE NoFile]

InstStepNew(n) ==
    \/ ensureContainerMkdir(n)
    \/ makeContainerLands(n)
    \/ readyContainer(n)
    \/ promoteDone(n)
    \/ instantiateStaticTry(n)
    \/ instantiateStaticSettle(n)
    \/ instantiateStaticCatch(n)

NextFetch ==
    \/ CallFetch
    \/ fetchRstat
    \/ fetchLoad
    \/ fetchParsed
    \/ fetchSchema
    \/ fetchPlanted
    \/ fetchPlantWritten
    \/ fetchIndexWritten
    \/ fetchRegistered
    \/ fetchValidated
    \/ nextFetchPass
    \/ nextFetchForward
    \/ nextFetchCompensate
    \/ fetchCreated
    \/ fetchDirMaker
    \/ fetchAsManaged
    \/ fetchCreatedWritten
    \/ \E c \in Conts : StorageStep(c)
    \/ \E n \in Nodes : InstStepNew(n)

SpecFetch == InitFetch /\ [][NextFetch]_vars

(***************************************************************************)
(* SpecCache: calls of cachingFetch on one SimpleApps, over a network that *)
(* answers with the responses of web and a Storage that may fail.          *)
(***************************************************************************)
\* Whether u and v are the same url, or differ only in their fragment.
sameResource(u, v) == [u EXCEPT !.hash = <<>>] = [v EXCEPT !.hash = <<>>]

\* Whether a call for u is made after a call for the same resource has resolved.
later(u) ==
    \E j \in 1..MaxFetches :
        cf[j].pc = "done" /\ cf[j].result.ok /\ sameResource(cf[j].url, u)

\* A mutant: no target is taken to be of the cache's origin.
sameOriginNever(u) == FALSE

\* new URL('/', this.cacheUrl).href === new URL('/', url).href (199)
sameOrigin(u) == originOf(URL(CacheOrigin, <<>>, <<>>)) = originOf(u)

\* A call of cachingFetch (192-201), up to its first suspension: the direct
\* Fetch of a target of the cache's origin, or storage.rstat(cacheUrl).
CallCachingFetch(i) ==
    /\ cf[i].pc = "idle"
    /\ \A j \in 1..(i - 1) : cf[j].pc # "idle"
    /\ \E u \in Targets :
        IF sameOrigin(u)
        THEN /\ cf' = [cf EXCEPT ![i] = [@ EXCEPT !.url = u, !.pc = "direct",
                                                  !.via = "direct", !.later = later(u)]]
             /\ net' = Append(net, u)
        ELSE /\ cf' = [cf EXCEPT ![i] = [@ EXCEPT !.url = u, !.pc = "rstat",
                                                  !.later = later(u)]]
             /\ UNCHANGED net
    /\ UNCHANGED <<locks, graph, svars, issued, ivars, fvars, uvars, cache, stores, web>>

\* Fetch(url, options) of a target of the cache's origin settles (200).
cachingFetchDirect(i) ==
    /\ Quiet /\ cf[i].pc = "direct"
    /\ \/ \E r \in web :
            cf' = [cf EXCEPT ![i] = [@ EXCEPT !.pc = "done",
                                              !.result = FakeResponse(r.headers, r.text)]]
       \/ cf' = [cf EXCEPT ![i] = [@ EXCEPT !.pc = "done", !.result = Rejected("Error")]]
    /\ UNCHANGED <<locks, graph, svars, issued, ivars, fvars, uvars, cache, net, stores, web>>

\* storage.rstat(cacheUrl).then(stat => true, e => false) settles (201): any
\* rejection reads as a miss.  A miss calls Fetch (206), a hit storage.read (230).
cachingFetchRstat(i) ==
    /\ Quiet /\ cf[i].pc = "rstat"
    /\ LET k == cacheName(cf[i].url)
       IN  \E fails \in {FALSE} \cup (IF CanFault /\ cache[k].here THEN {TRUE} ELSE {}) :
             /\ faults' = IF fails THEN faults + 1 ELSE faults
             /\ IF cache[k].here /\ ~fails
                THEN /\ cf' = [cf EXCEPT ![i] = [@ EXCEPT !.pc = "read", !.via = "hit"]]
                     /\ UNCHANGED net
                ELSE /\ cf' = [cf EXCEPT ![i] = [@ EXCEPT !.pc = "fetch", !.via = "miss"]]
                     /\ net' = Append(net, cf[i].url)
    /\ UNCHANGED <<locks, graph, dir, index, plain, rm, file, issued, ivars, fvars, uvars>>
    /\ UNCHANGED <<cache, stores, web>>

\* Errors.getOrThrow(Fetch, url, options) and resp.text() settle (206-207); the
\* headers are filtered, the image is built and storage.write is called
\* (208-222).
cachingFetchFetched(i) ==
    /\ Quiet /\ cf[i].pc = "fetch"
    /\ \/ \E r \in web :
            LET headers == filterHeaders(r.headers)
            IN  cf' = [cf EXCEPT ![i] = [@ EXCEPT !.pc = "write",
                                                  !.got = FakeResponse(headers, r.text),
                                                  !.image = imageOf(headers, r.text)]]
       \/ cf' = [cf EXCEPT ![i] = [@ EXCEPT !.pc = "done", !.result = Rejected("Error")]]
    /\ UNCHANGED <<locks, graph, svars, issued, ivars, fvars, uvars, cache, net, stores, web>>

\* storage.write(cacheUrl, image) settles (222-225).
cachingFetchWritten(i) ==
    /\ Quiet /\ cf[i].pc = "write"
    /\ LET k == cacheName(cf[i].url)
       IN  \/ /\ cache' = [cache EXCEPT ![k] = [here |-> TRUE, image |-> cf[i].image,
                                                 from |-> cf[i].got]]
              /\ stores' = [stores EXCEPT ![k] = @ + 1]
              /\ cf' = [cf EXCEPT ![i] = [@ EXCEPT !.pc = "done", !.result = cf[i].got]]
              /\ UNCHANGED faults
           \/ /\ CanFault
              /\ faults' = faults + 1
              /\ cf' = [cf EXCEPT ![i] = [@ EXCEPT !.pc = "done",
                                                   !.result = Rejected("Error")]]
              /\ UNCHANGED <<cache, stores>>
    /\ UNCHANGED <<locks, graph, dir, index, plain, rm, file, issued, ivars, fvars, uvars>>
    /\ UNCHANGED <<net, web>>

\* storage.read(cacheUrl) settles and the image is parsed (230-239).
cachingFetchRead(i) ==
    /\ Quiet /\ cf[i].pc = "read"
    /\ LET k == cacheName(cf[i].url)
       IN  \/ /\ cf' = [cf EXCEPT ![i] = [@ EXCEPT !.pc = "done",
                                                   !.got = cache[k].from,
                                                   !.image = cache[k].image,
                                                   !.result = parseImage(cache[k].image)]]
              /\ UNCHANGED faults
           \/ /\ CanFault
              /\ faults' = faults + 1
              /\ cf' = [cf EXCEPT ![i] = [@ EXCEPT !.pc = "done",
                                                   !.result = Rejected("Error")]]
    /\ UNCHANGED <<locks, graph, dir, index, plain, rm, file, issued, ivars, fvars, uvars>>
    /\ UNCHANGED <<cache, net, stores, web>>

\* The network answers every Fetch of a behaviour alike, or with either of two
\* responses that differ in a header.
Webs ==
    {{r} : r \in Responses}
        \cup {{[headers |-> <<Header("k", <<"v">>)>>, text |-> <<"a">>],
               [headers |-> <<Header("k", <<"t">>)>>, text |-> <<"a">>]}}

InitCache ==
    /\ InitCommon
    /\ web \in Webs
    /\ unit = NoUnit
    /\ schema = {"R"}
    /\ graph = [c \in Conts |-> {}]
    /\ dir = [c \in Conts |-> FALSE]
    /\ index = [c \in Conts |-> NoFile]

NextCache ==
    \/ \E i \in 1..MaxFetches : CallCachingFetch(i)
    \/ \E i \in 1..MaxFetches : cachingFetchDirect(i)
    \/ \E i \in 1..MaxFetches : cachingFetchRstat(i)
    \/ \E i \in 1..MaxFetches : cachingFetchFetched(i)
    \/ \E i \in 1..MaxFetches : cachingFetchWritten(i)
    \/ \E i \in 1..MaxFetches : cachingFetchRead(i)

SpecCache == InitCache /\ [][NextCache]_vars

(***************************************************************************)
(* SpecCalls: one call of a function of lib/shape-tree.js on arguments     *)
(* drawn from bounded sets.                                                *)
(***************************************************************************)
\* The longest string handed to a call, in characters.
MaxLen == 3

\* The strings over an alphabet, up to a length.
Strings(alphabet, n) == UNION {[1..k -> alphabet] : k \in 0..n}

\* The characters of an instance path: a letter, the separator, the quote and
\* the backslash.
PathChars == {"a", "n", "/", "\"", "\\"}

\* `"${shapeTreeInstancePath}"` in containerText (159): the path is put between
\* quotes as it is.
quoted(p) == <<"\"">> \o p \o <<"\"">>

\* The escapes of a Turtle string literal, and the character each stands for.
Escapable == {"n", "\"", "\\"}
echar(c) == CASE c = "n" -> "\n" [] OTHER -> c

NoString == [ok |-> FALSE, value |-> <<>>, rest |-> <<>>]

RECURSIVE readString(_)
\* rdfInterface.parseTurtle reading a string literal after its opening quote
\* (138): the characters up to the first quote that is not escaped, with the
\* escapes replaced; a backslash before any other character is a syntax error.
readString(s) ==
    IF s = <<>> THEN NoString
    ELSE IF s[1] = "\"" THEN [ok |-> TRUE, value |-> <<>>, rest |-> Tail(s)]
    ELSE IF s[1] = "\\"
    THEN IF Len(s) >= 2 /\ s[2] \in Escapable
         THEN LET r == readString(SubSeq(s, 3, Len(s)))
              IN  [r EXCEPT !.value = <<echar(s[2])>> \o @]
         ELSE NoString
    ELSE LET r == readString(Tail(s))
         IN  [r EXCEPT !.value = <<s[1]>> \o @]

\* The literal parseTurtle reads where containerText wrote the path: the text
\* parses only when the literal ends at the quote containerText closed it with.
parsePath(p) ==
    LET r == readString(Tail(quoted(p)))
    IN  [ok |-> r.ok /\ r.rest = <<>>, value |-> r.value]

\* rdfInterface.one(g, s, p, null): the object of the one statement.
one(g, s, p) == CHOOSE o \in zeroOrOne(g, s, p) : TRUE

\* getRootedShapeTree (177-181): a RemoteShapeTree of the shapeTreeRoot and the
\* shapeTreeInstancePath statements of the container.
getRootedShapeTree(g, n) ==
    [url |-> one(g, n, "shapeTreeRoot"), path |-> one(g, n, "shapeTreeInstancePath")]

\* new ManagedContainer(<P/R/>, title, S, p) on a new directory, followed by
\* getRootedShapeTree(): loadOrCreate parses containerText (137-139) and adds
\* its statements to those of the new container; a text that does not parse
\* makes loadOrCreate reject.
callGetRootedShapeTree ==
    /\ unit.fn = "getRootedShapeTree" /\ ~outcome.done
    /\ LET lit == parsePath(unit.path)
           g == makeContainer("R") \cup containerText("R", unit.shapeTreeUrl, lit.value)
       IN  outcome' = IF lit.ok
                      THEN [done |-> TRUE, thrown |-> "none", graph |-> g,
                            rooted |-> getRootedShapeTree(g, "R")]
                      ELSE [done |-> TRUE, thrown |-> "parseTurtle", graph |-> {},
                            rooted |-> [url |-> "none", path |-> <<>>]]
    /\ UNCHANGED <<locks, graph, svars, issued, ivars, fvars, cvars, unit>>

\* The statements a Container P may hold before a call.
Statements ==
    makeContainer("P")
        \cup {contains("P", "R"), contains("P", "A"), <<"R", "shapeTreeRoot", ShapeTreeUrl>>}

\* container.addMember(location, shapeTreeUrl) on the Container P (100-103).
callAddMember ==
    /\ unit.fn = "addMember" /\ outcome.step = 0
    /\ outcome' = [done |-> FALSE, step |-> 1,
                   graph |-> addMember(unit.graph, "P", unit.member)]
    /\ UNCHANGED <<locks, graph, svars, issued, ivars, fvars, cvars, unit>>

\* container.removeMember(location, shapeTreeUrl) of the member just added
\* (105-108).
callRemoveMember ==
    /\ unit.fn = "addMember" /\ outcome.step = 1
    /\ outcome' = [done |-> TRUE, step |-> 2, added |-> outcome.graph,
                   graph |-> removeMember(outcome.graph, "P", unit.member)]
    /\ UNCHANGED <<locks, graph, svars, issued, ivars, fvars, cvars, unit>>

\* String.prototype.endsWith.
endsWith(s, suffix) ==
    /\ Len(s) >= Len(suffix)
    /\ SubSeq(s, Len(s) - Len(suffix) + 1, Len(s)) = suffix

\* A mutant: the constructor does not look for a doubled separator.
pathErrorOfSingle(pathname) ==
    IF ~endsWith(pathname, <<"/">>) THEN {Error("must end with '/'")} ELSE {}

\* The constructor's tests of url.pathname (48-51): the Error thrown, if any.
pathError(pathname) ==
    IF ~endsWith(pathname, <<"/">>) THEN {Error("must end with '/'")}
    ELSE IF endsWith(pathname, <<"/", "/">>) THEN {Error("ends with '//'")}
    ELSE {}

\* A mutant: the constructor takes no title for a pre-parsed graph.
instanceofNothing(title) == FALSE

\* title instanceof Array (53, 55, 58): the title is [graph, prefixes].
instanceofArray(title) == title # {}

\* The index file of a container R that exists before the call.
Existing == makeContainer("R") \cup {contains("R", "A")}

\* new Container(url, title) (45-58) for the container R, up to the return of
\* the constructor: the tests of the path, then either the pre-parsed graph
\* and a resolved ready, or loadOrCreate up to its call of ensureContainer.
callContainer ==
    /\ unit.fn = "Container" /\ outcome.step = 0
    /\ IF pathError(unit.pathname) # {}
       THEN /\ outcome' = [done |-> TRUE, step |-> 1, ready |-> FALSE,
                           thrown |-> pathError(unit.pathname)]
            /\ UNCHANGED <<locks, graph, pc>>
       ELSE IF instanceofArray(unit.title)
       THEN /\ graph' = [graph EXCEPT !["R"] = CHOOSE g \in unit.title : TRUE]
            /\ outcome' = [done |-> TRUE, step |-> 1, ready |-> TRUE, thrown |-> {}]
            /\ UNCHANGED <<locks, pc>>
       ELSE /\ locks' = [locks EXCEPT !["R"] = loadOrCreate(@)]
            /\ pc' = [pc EXCEPT !["R"] = "mkdir"]
            /\ outcome' = [done |-> FALSE, step |-> 1, ready |-> FALSE, thrown |-> {}]
            /\ UNCHANGED graph
    /\ UNCHANGED <<svars, issued, err, newDir, sibs, schema, fvars, cvars, unit>>

\* The Container's ready resolves (the timer of 68-72).
callContainerReady ==
    /\ Quiet
    /\ unit.fn = "Container" /\ pc["R"] = "sleep1"
    /\ pc' = [pc EXCEPT !["R"] = "done"]
    /\ outcome' = [outcome EXCEPT !.done = TRUE, !.step = 2, !.ready = TRUE]
    /\ UNCHANGED <<locks, graph, svars, issued, err, newDir, sibs, schema, fvars, cvars, unit>>

\* The children (tree:contents) a node of the schema has at most.
MaxChildren == 2

\* The tree:uriTemplate of a child: none, a template of one variable, or a
\* literal one.
Templates == {{}, {"{x}"}, {"a"}, {"b"}}

\* The slug matchingStep is called with: undefined, or a string.
Slugs == {{}, {""}, {"a"}, {"b"}}

\* !slug: undefined and the empty string are falsy.
falsy(slug) == slug = {} \/ slug = {""}

\* UriTemplate.match of uri-template-lite: a template of one variable matches
\* a name that is not empty, a literal template the name equal to it.
match(template, name) ==
    IF template = "{x}" THEN name # "" ELSE name = template

UriTemplateMatchError(what) ==
    [ManagedError("UriTemplateMatchError") EXCEPT !.msg = <<what>>]

\* new UriTemplate(undefined) (294-297): the constructor of uri-template-lite
\* calls template.replace, which a template that is undefined does not have.
TypeError == [Error("Cannot read property 'replace' of undefined") EXCEPT !.name = "TypeError"]

\* The filter of 291-298 over the children in the order of their statements:
\* the children kept.
choices(contents, slug) ==
    {i \in 1..Len(contents) :
        falsy(slug) \/ \E t \in contents[i] : \E name \in slug : match(t, name)}

\* matchingStep (288-322): what it throws, or the step it returns.
matchingStep(contents, slug) ==
    IF ~falsy(slug) /\ \E i \in 1..Len(contents) : contents[i] = {}
    THEN [thrown |-> {TypeError}, ret |-> {}]
    ELSE IF choices(contents, slug) = {}
    THEN [thrown |-> {UriTemplateMatchError("No match")}, ret |-> {}]
    ELSE IF Cardinality(choices(contents, slug)) > 1
    THEN [thrown |-> {UriTemplateMatchError("Ambiguous match")}, ret |-> {}]
    ELSE [thrown |-> {},
          ret |-> {[node |-> i, uriTemplate |-> contents[i]] : i \in choices(contents, slug)}]

\* shapeTree.matchingStep(shapeTreeNode, slug).
callMatchingStep ==
    /\ unit.fn = "matchingStep" /\ outcome.step = 0
    /\ outcome' = [done |-> TRUE, step |-> 1,
                   thrown |-> matchingStep(unit.contents, unit.slug).thrown,
                   ret |-> matchingStep(unit.contents, unit.slug).ret]
    /\ UNCHANGED <<locks, graph, svars, issued, ivars, fvars, cvars, unit>>

\* The paths of the URLs a Container is constructed with.
Pathnames == {<<"/">> \o s : s \in Strings({"a", "/"}, MaxLen)}

\* A step of the schema as getRdfRoot reads it: its rdfs:label and its
\* tree:uriTemplate, each present or not.
Step(label, uriTemplate) == [label |-> label, uriTemplate |-> uriTemplate]

\* The steps a node's tree:contents is made of: statically labeled ones, ones
\* with a URI template of one variable or a literal one, and one with neither.
StepKinds ==
    {Step({<<"a">>}, {}), Step({<<"b">>}, {}), Step({}, {<<"{x}">>}),
     Step({}, {<<"b">>}), Step({}, {})}

\* The contents of every step below the root's own: one step labeled b.
Nested == <<Step({<<"b">>}, {})>>

\* getQuads(node, tree:contents): a node is the sequence of positions that
\* leads to it from the root; the steps two levels down have no contents.
contentsOf(top, node) ==
    IF node = <<>> THEN top ELSE IF Len(node) = 1 THEN Nested ELSE <<>>

RECURSIVE splitPath(_)
\* this.path.split(/\//) (268): the empty path splits into one empty segment.
splitPath(p) ==
    LET i == indexOf(p, "/")
    IN  IF i = 0 THEN <<p>>
        ELSE <<SubSeq(p, 1, i - 1)>> \o splitPath(SubSeq(p, i + 1, Len(p)))

\* cqz.find(...) (274-281): the positions of the contents whose label is the
\* name or which have one tree:uriTemplate statement.
found(cqz, name) ==
    {i \in 1..Len(cqz) : name \in cqz[i].label \/ cqz[i].uriTemplate # {}}

First(is) == CHOOSE i \in is : \A j \in is : i <= j

RECURSIVE reduce(_, _, _)
\* The reduce of 268-282 from a node over the remaining segments: the node
\* reached, or nothing when find returned undefined and .object threw.
reduce(top, node, names) ==
    IF names = <<>> THEN {node}
    ELSE IF Head(names) = <<".">> THEN reduce(top, node, Tail(names))
    ELSE IF found(contentsOf(top, node), Head(names)) = {} THEN {}
    ELSE reduce(top, Append(node, First(found(contentsOf(top, node), Head(names)))),
                Tail(names))

\* getRdfRoot (267-283) on a schema whose root has the contents top.
getRdfRoot(top, path) == reduce(top, <<>>, splitPath(path))

\* shapeTree.getRdfRoot().
callGetRdfRoot ==
    /\ unit.fn = "getRdfRoot" /\ outcome.step = 0
    /\ outcome' = [done |-> TRUE, step |-> 1,
                   thrown |-> IF getRdfRoot(unit.contents, unit.path) = {}
                              THEN {TypeError} ELSE {},
                   node |-> getRdfRoot(unit.contents, unit.path)]
    /\ UNCHANGED <<locks, graph, svars, issued, ivars, fvars, cvars, unit>>

\* shapeBase (361-362): the shape's URL with the fragment removed.
shapeBase(shape) == [shape EXCEPT !.hash = <<>>]

\* Errors.getOrThrow(fetch, shapeBase) (363), "throws if unresolvable": what it
\* throws for the answer to the fetch of the schema document.
getOrThrow(schemaResp) ==
    IF schemaResp # "ok" THEN {ManagedError("MissingShapeError")} ELSE {}

\* A mutant: validate does not look for errors in the validator's result.
validateAnyResult(schemaResp, text, res) ==
    IF getOrThrow(schemaResp) # {} THEN getOrThrow(schemaResp)
    ELSE IF text # "schema" THEN {Error("parse")}
    ELSE IF res = "throws" THEN {ManagedError("MissingShapeError")}
    ELSE {}

\* validate (359-382), what it throws: schemaResp is the answer to the fetch of the
\* schema document, text what ShExParser makes of it, res what v.validate
\* does.  The parse of 366-367 is outside the try block.
validate(schemaResp, text, res) ==
    IF getOrThrow(schemaResp) # {} THEN getOrThrow(schemaResp)
    ELSE IF text # "schema" THEN {Error("parse")}
    ELSE IF res = "throws" THEN {ManagedError("MissingShapeError")}
    ELSE IF res = "errors" THEN {ManagedError("ValidationError")}
    ELSE {}

\* shapeTree.validate(shape, payloadGraph, node).
callValidate ==
    /\ unit.fn = "validate" /\ outcome.step = 0
    /\ outcome' = [done |-> TRUE, step |-> 1,
                   fetched |-> shapeBase(unit.shape),
                   thrown |-> validate(unit.resp, unit.text, unit.res)]
    /\ UNCHANGED <<locks, graph, svars, issued, ivars, fvars, cvars, unit>>

\* The largest number k for which the name base-k may be taken in the parent.
MaxTaken == 2

\* tested = base + nth + optSlash (251-252, 260-263): the name probed for the
\* number unique, as the sequence of its parts.
tested(slug, type, unique) ==
    (IF falsy(slug) THEN <<type>> ELSE <<CHOOSE b \in slug : TRUE>>)
        \o (IF unique > 0 THEN <<"-", ToString(unique)>> ELSE <<>>)
        \o (IF type = "Container" THEN <<"/">> ELSE <<>>)

\* firstAvailableFile(parentUrl, slug, type) (250-267) up to the first
\* storage.rstat of incrementAndTest.
callFirstAvailableFile ==
    /\ unit.fn = "firstAvailableFile" /\ outcome.step = 0
    /\ outcome' = [done |-> FALSE, step |-> 1, unique |-> 0,
                   tested |-> tested(unit.slug, unit.type, 0)]
    /\ UNCHANGED <<locks, graph, svars, issued, ivars, fvars, cvars, unit>>

\* storage.rstat(testUrl).then(stat => true, e => false) settles (265): true
\* when the name is taken and rstat finds it, which makes the loop probe the
\* next number; false when rstat rejects, for a name that is not there or for
\* any other reason, which makes firstAvailableFile return the name tested.
firstAvailableFileRstat ==
    /\ Quiet
    /\ unit.fn = "firstAvailableFile" /\ outcome.step > 0 /\ ~outcome.done
    /\ \/ /\ outcome.unique \in unit.taken
          /\ outcome' = [done |-> FALSE, step |-> outcome.step + 1,
                         unique |-> outcome.unique + 1,
                         tested |-> tested(unit.slug, unit.type, outcome.unique + 1)]
          /\ UNCHANGED faults
       \/ /\ outcome.unique \notin unit.taken \/ CanFault
          /\ faults' = IF outcome.unique \in unit.taken THEN faults + 1 ELSE faults
          /\ outcome' = [outcome EXCEPT !.done = TRUE]
    /\ UNCHANGED <<locks, graph, dir, index, plain, rm, file, issued, ivars, fvars, cvars, unit>>

RECURSIVE joinSegments(_)
\* segments.join('/').
joinSegments(segs) ==
    IF segs = <<>> THEN <<>>
    ELSE IF Len(segs) = 1 THEN segs[1]
    ELSE segs[1] \o <<"/">> \o joinSegments(Tail(segs))

\* Path.join(a, b) of instantiateStatic (344): the two joined by one
\* separator and normalized, '.' and empty segments dropped; '.' when nothing
\* is left.  The paths of the model hold no '..'.
pathJoin(a, b) ==
    LET segs == SelectSeq(splitPath(a \o <<"/">> \o b),
                          LAMBDA n : n # <<".">> /\ n # <<>>)
    IN  IF segs = <<>> THEN <<".">> ELSE joinSegments(segs)

\* location.pathname.substr(postedContainer.url.pathname.length) (135).
substr(s, from) == SubSeq(s, from + 1, Len(s))

\* newShapeTreeInstancePath (135): the parent's instance path followed by what
\* the created container's path has beyond the parent's.
newShapeTreeInstancePath(shapeTreeInstancePath, pathname, locationPathname) ==
    shapeTreeInstancePath \o substr(locationPathname, Len(pathname))

\* The non-plant POST of a Container (131-137) from the Location the next
\* fetch returned to the instance path given to asManagedContainer, beside
\* the path instantiateStatic gives a child of that name (344-346).
callPromote ==
    /\ unit.fn = "promote" /\ outcome.step = 0
    /\ LET pathname == <<"/", "P", "/">>
           created == pathname \o unit.name \o <<"/">>
           promoted == newShapeTreeInstancePath(unit.path, pathname, created)
           static == pathJoin(unit.path, unit.name)
       IN  outcome' = [done |-> TRUE, step |-> 1,
                       promoted |-> promoted, static |-> static,
                       promotedNode |-> getRdfRoot(unit.contents, promoted),
                       staticNode |-> getRdfRoot(unit.contents, static)]
    /\ UNCHANGED <<locks, graph, svars, issued, ivars, fvars, cvars, unit>>

\* Ecosystem.unindexInstalledShapeTree (simple-apps.js 121-123).
unindexInstalledShapeTree(g, instanceUrl, shapeTreeUrl) ==
    g \ {<<instanceUrl, "shapeTreeRoot", shapeTreeUrl>>}

\* The statement-set of the parent P before the calls: a plain container or a
\* Managed Container bound to the schema, with the instances indexed in it.
parentGraph(managed, installed) ==
    makeContainer("P")
        \cup (IF managed THEN containerText("P", ShapeTreeUrl, ".") ELSE {})
        \cup {<<l, "shapeTreeRoot", ShapeTreeUrl>> : l \in installed}

\* Ecosystem.reuseShapeTree(parent, S), then
\* Ecosystem.indexInstalledShapeTree(parent, L, S) and reuseShapeTree again.
callIndexInstalledShapeTree ==
    /\ unit.fn = "reuseShapeTree" /\ outcome.step = 0
    /\ LET g == parentGraph(unit.managed, unit.installed)
           indexed == indexInstalledShapeTree(g, unit.instance, ShapeTreeUrl)
       IN  outcome' = [done |-> FALSE, step |-> 1, graph |-> indexed,
                       before |-> reuseShapeTree(g, ShapeTreeUrl),
                       indexed |-> reuseShapeTree(indexed, ShapeTreeUrl),
                       unindexed |-> "none"]
    /\ UNCHANGED <<locks, graph, svars, issued, ivars, fvars, cvars, unit>>

\* Ecosystem.unindexInstalledShapeTree(parent, L, S), then reuseShapeTree.
callUnindexInstalledShapeTree ==
    /\ unit.fn = "reuseShapeTree" /\ outcome.step = 1
    /\ LET g == unindexInstalledShapeTree(outcome.graph, unit.instance, ShapeTreeUrl)
       IN  outcome' = [outcome EXCEPT !.done = TRUE, !.step = 2, !.graph = g,
                                      !.unindexed = reuseShapeTree(g, ShapeTreeUrl)]
    /\ UNCHANGED <<locks, graph, svars, issued, ivars, fvars, cvars, unit>>

\* The calls and their arguments.
Units ==
    {[fn |-> "getRootedShapeTree", shapeTreeUrl |-> ShapeTreeUrl, path |-> p] :
        p \in Strings(PathChars, MaxLen)}
    \cup {[fn |-> "addMember", graph |-> g, member |-> m] :
              g \in SUBSET Statements, m \in {"R", "A"}}
    \cup {[fn |-> "Container", pathname |-> p, title |-> t, exists |-> x] :
              p \in Pathnames, x \in BOOLEAN,
              t \in {{}, {{}}, {Existing}, {makeContainer("R")}}}
    \cup {[fn |-> "matchingStep", contents |-> c, slug |-> g] :
              c \in Strings(Templates, MaxChildren), g \in Slugs}
    \cup {[fn |-> "validate", shape |-> [url |-> ShapeTreeUrl, hash |-> h],
            resp |-> r, text |-> t, res |-> v] :
              h \in {<<>>, <<"f">>}, r \in {"ok", "404"}, t \in {"schema", "garbled"},
              v \in {"conforms", "errors", "throws"}}
    \cup {[fn |-> "firstAvailableFile", slug |-> g, type |-> t, taken |-> x] :
              g \in {{}, {""}, {"a"}}, t \in {"Container", "Resource"},
              x \in SUBSET (0..MaxTaken)}
    \cup {[fn |-> "promote", contents |-> c, path |-> p, name |-> n] :
              c \in Strings(StepKinds, MaxChildren),
              p \in {<<".">>, <<"a">>}, n \in {<<"a">>, <<"b">>}}
    \cup {[fn |-> "reuseShapeTree", managed |-> m, installed |-> x, instance |-> l] :
              m \in BOOLEAN, x \in {{}, {"R"}}, l \in {"R", "A"}}
    \cup {[fn |-> "getRdfRoot", contents |-> c, path |-> p] :
              c \in Strings(StepKinds, MaxChildren),
              p \in Strings({".", "a", "b", "/"}, MaxLen)}

InitCalls ==
    /\ InitCommon
    /\ web = {}
    /\ unit \in Units
    /\ schema = {"R"}
    /\ graph = [c \in Conts |-> {}]
    /\ dir = [c \in Conts |-> c = "P" \/ (c = "R" /\ unit.fn = "Container" /\ unit.exists)]
    /\ index = [c \in Conts |-> IF c = "P" THEN makeContainer(c)
                                 ELSE IF dir[c] THEN Existing ELSE NoFile]

NextCalls ==
    \/ callGetRootedShapeTree
    \/ callAddMember
    \/ callRemoveMember
    \/ callContainer
    \/ ensureContainerMkdir("R")
    \/ ensureContainerRead("R")
    \/ makeContainerLands("R")
    \/ callContainerReady
    \/ callMatchingStep
    \/ callGetRdfRoot
    \/ callValidate
    \/ callFirstAvailableFile
    \/ firstAvailableFileRstat
    \/ callPromote
    \/ callIndexInstalledShapeTree
    \/ callUnindexInstalledShapeTree

SpecCalls == InitCalls /\ [][NextCalls]_vars

\* The request is a non-plant POST or a PUT and the container loaded for it is
\* a Managed Container.
ManagedWrite ==
    /\ req.method \in {"POST", "PUT"}
    /\ ~req.plant
    /\ isManaged(graph["P"], "P")

\* C6: for a non-plant POST or a PUT under a managed parent, the next fetch has
\* been called only if validatePayload matched the name and validated the
\* payload; when it did not, the next fetch was never called, no resource exists
\* at the target, and the call resolved with the error response of that error.
C6_ValidatedBeforeForward ==
    ManagedWrite =>
        /\ calls # <<>> => validated = "ok"
        /\ validated \in {"noMatch", "invalid"} =>
              /\ calls = <<>>
              /\ ~dir["R"] /\ ~file
              /\ fpc = "done"
              /\ resp = catchAll(validateError(validated))

\* A payload that validated was forwarded and the container R created.
C6_Witness ==
    /\ ManagedWrite
    /\ validated = "ok"
    /\ Len(calls) = 1 /\ calls[1].by = "forward"
    /\ dir["R"]

\* C7: a plant POST to the existing container P with slug R, no instance to
\* reuse and no collaborator failing, resolves with 201, Location P/R/ and
\* text/turtle, and from then on Storage holds a container at P/R/ with the
\* binding statements for the schema and the instance path '.', and the index
\* file of P holds the containment triple and the index entry of P/R/.
C7_PlantCreates ==
    (/\ req.plant /\ req.fail = "none"
     /\ graph["P"] # {} /\ ~reused
     /\ faults = 0
     /\ fpc = "done") =>
        /\ resp = planted("R")
        /\ dir["R"]
        /\ containerText("R", ShapeTreeUrl, ".") \subseteq index["R"]
        /\ contains("P", "R") \in index["P"]
        /\ <<"R", "shapeTreeRoot", ShapeTreeUrl>> \in index["P"]

C9_CompensationRemovesCreated ==
    (/\ fpc = "done" /\ ferr # NoErr
     /\ req.method = "POST" /\ ret.location = "R"
     /\ LastCall.by = "compensate" /\ served[Len(served)] = "ok") =>
        /\ ~dir["R"]
        /\ dir["P"]
        /\ resp = catchAll(ferr)

\* C10: the promise shapeTreeFetch returned is never rejected.
C10_NeverRejects == fpc # "rejected"

\* C11: once an error has reached the catch-all, the call has resolved with a
\* response of Content-Type application/json whose body holds the message, the
\* error and the stack of that error; its status is the error's own status for
\* a managed error, whose status and message are as they were raised, and 500
\* for an error that is not managed and carries no status.
C11_ErrorResponse ==
    caught # NoErr =>
        /\ fpc = "done"
        /\ resp.by = "error"
        /\ resp.ctype = "application/json"
        /\ DOMAIN resp.body = {"message", "error", "stack"}
        /\ resp.body.message = caught.msg
        /\ resp.body.stack = <<caught.name, caught.msg>>
        /\ resp.body.error.name = caught.name /\ resp.body.error.msg = caught.msg
        /\ caught.managed => resp.status = caught.status /\ resp.body.error = caught
        /\ (~caught.managed /\ caught.status = "none") => resp.status = "500"

\* The payload of a plant did not parse: an Error without a status was answered
\* with status 500.
C11_Witness ==
    /\ caught = Error("parseRdf")
    /\ fpc = "done"
    /\ resp.status = "500"

\* Nothing was loaded, forwarded, created or written on behalf of the call.
Untouched ==
    /\ calls = <<>>
    /\ registered = <<>>
    /\ \A c \in Conts : graph[c] = {} /\ locks[c] = <<>> /\ ~plain[c] /\ rm[c] = <<>>
    /\ \A n \in Nodes : pc[n] = "idle"

\* C12: a POST whose rstatOrNull(requestUrl) found nothing resolves with the
\* error response of a NotFoundError, status 404, and nothing was loaded,
\* forwarded to the next fetch, created or written.
C12_PostNotFound ==
    (req.method = "POST" /\ rstat = "null") =>
        /\ fpc = "done"
        /\ resp = catchAll(NotFoundError)
        /\ resp.status = "404"
        /\ Untouched

\* A plant POST to the missing container P was answered with 404.
C12_Witness ==
    /\ req.method = "POST" /\ req.plant
    /\ ~dir["P"]
    /\ rstat = "null"
    /\ resp.status = "404"

\* C13: a PUT whose parent container P does not exist resolves with the error
\* response of a NotFoundError, status 404, and nothing was forwarded to the
\* next fetch or written.
C13_PutNotFound ==
    (req.method = "PUT" /\ ~dir["P"] /\ fpc = "done") =>
        /\ resp.status = "404"
        /\ calls = <<>>
        /\ \A c \in Conts : locks[c] = <<>>

\* The request is passed through: a GET, a DELETE or another verb, or a non-plant
\* POST or a PUT for which the container was loaded and holds no binding.
PassedThrough ==
    \/ req.method \in {"GET", "DELETE", "PATCH"}
    \/ /\ req.method \in {"POST", "PUT"}
       /\ ~req.plant
       /\ graph["P"] # {}
       /\ \A t \in graph["P"] : t[2] # "shapeTreeInstanceRoot"

C15_LaterCallsHit ==
    \A i \in 1..MaxFetches :
        (cf[i].later /\ ~sameOrigin(cf[i].url)) => cf[i].via \in {"none", "hit"}

\* C16: a cache hit resolves with the body and the headers that the miss which
\* wrote the entry resolved with, whatever the fetched response was.
C16_HitReplaysMiss ==
    \A i \in 1..MaxFetches :
        (cf[i].pc = "done" /\ cf[i].via = "hit" /\ cf[i].image # <<>>)
            => cf[i].result = cf[i].got
\* C17: once the file of a cache name is written, no call writes it again, and
\* it is never modified or removed.
C17_WriteOnce ==
    [][\A k \in CacheNames :
          cache[k].here => (cache'[k] = cache[k] /\ stores'[k] = stores[k])]_vars
\* The calls made for a target of the cache's own origin.
OwnOriginCalls == {i \in 1..MaxFetches : cf[i].pc # "idle" /\ cf[i].url.origin = CacheOrigin}

\* C18: a call for a target of the cache's own origin calls Fetch itself, once
\* per call, and neither reads nor writes a file of the cache.
C18_SameOriginBypasses ==
    /\ \A i \in OwnOriginCalls :
          /\ cf[i].via = "direct" /\ cf[i].pc \in {"direct", "done"}
          /\ cf[i].image = <<>> /\ cf[i].got = NoResult
          /\ ~cache[cacheName(cf[i].url)].here /\ stores[cacheName(cf[i].url)] = 0
    /\ Cardinality({n \in 1..Len(net) : net[n].origin = CacheOrigin})
          = Cardinality(OwnOriginCalls)

\* Two calls for a target of the cache's own origin have resolved, each with
\* the response of its own Fetch.
C18_Witness ==
    \E i, j \in OwnOriginCalls :
        /\ i # j /\ cf[i].pc = "done" /\ cf[j].pc = "done"
        /\ cf[i].result.ok /\ cf[j].result.ok /\ Len(net) = 2
\* C19: the statement-set of a Container changes only in a step taken while
\* that Container's own lock is held: held when the step begins, or acquired
\* in it.
C19_MutatedUnderLock ==
    [][\A c \in Conts :
          graph'[c] # graph[c] =>
              \/ \E k \in 1..Len(locks[c]) : locks[c][k].st = "held"
              \/ \E k \in 1..Len(locks'[c]) : locks'[c][k].st = "held"]_vars
\* C20: when instantiateStatic has returned the container of a step, the index
\* file of the parent holds the containment triple of that container.
C20_ParentPersisted ==
    \A n \in Nodes :
        pc[n] = "done" => contains(Parent(n), n) \in index[Parent(n)]
\* Whether the statements g bind the container n to the schema at its instance
\* path.
Bound(g, n) == containerText(n, ShapeTreeUrl, InstancePath(n)) \subseteq g

\* C21: when instantiateStatic has returned, the container of every statically
\* labeled step exists, is bound to the schema at its instance path and is a
\* member of its parent; a step without a label has no container.
C21_InstanceTree ==
    pc["R"] = "done" =>
        /\ \A n \in schema :
              /\ dir[n]
              /\ Bound(graph[n], n)
              /\ contains(Parent(n), n) \in graph[Parent(n)]
        /\ \A n \in Nodes \ schema : ~dir[n] /\ pc[n] = "idle"
\* C22: once a ManagedContainer made on a new directory is ready, and as long
\* as no rollback has begun, its index file holds the three binding statements.
C22_BindingPersisted ==
    (\A m \in Nodes : pc[m] \notin {"removing", "failed"}) =>
        \A n \in Nodes :
            (newDir[n] /\ pc[n] \in {"sleep2", "children", "done"}) => Bound(index[n], n)
\* The ManagedContainer of step n has become ready.
Ready(n) == pc[n] \in {"sleep2", "children", "done", "removing"}

\* C23: a ManagedContainer that has become ready has its three binding fields
\* set, and one made on a new directory has the schema root and the instance
\* path it was constructed with.
C23_BindingFields ==
    \A n \in Nodes :
        Ready(n) =>
            /\ bindingFields(n).shapeTreeUrl # {}
            /\ bindingFields(n).shapeTreeInstancePath # {}
            /\ bindingFields(n).shapeTreeInstanceRoot # {}
            /\ newDir[n] =>
                  /\ bindingFields(n).shapeTreeUrl = {ShapeTreeUrl}
                  /\ bindingFields(n).shapeTreeInstancePath = {InstancePath(n)}
\* C24: getRootedShapeTree() of a ManagedContainer made with schema root S and
\* instance path p is a handle with the url S and the path p.
C24_RootedShapeTree ==
    (unit.fn = "getRootedShapeTree" /\ outcome.done /\ outcome.thrown = "none") =>
        /\ outcome.rooted.url = unit.shapeTreeUrl
        /\ outcome.rooted.path = unit.path
\* C25: addMember(c) followed by removeMember(c) leaves the statement-set as it
\* was before the addMember, whatever the Container held.
C25_RoundTrip ==
    (unit.fn = "addMember" /\ outcome.done) => outcome.graph = unit.graph

\* C25 as amended: the round trip restores a statement-set that did not hold
\* the containment triple of c; on one that held it, addMember changes nothing
\* and removeMember removes the triple.
C25_RoundTripOfNewMember ==
    (unit.fn = "addMember" /\ outcome.done) =>
        /\ contains("P", unit.member) \notin unit.graph => outcome.graph = unit.graph
        /\ contains("P", unit.member) \in unit.graph =>
              /\ outcome.added = unit.graph
              /\ outcome.graph = unit.graph \ {contains("P", unit.member)}

\* A member was added to a Container that holds other statements, another
\* member among them, and removed again.
C25_Witness ==
    /\ unit.fn = "addMember" /\ outcome.done
    /\ contains("P", unit.member) \notin unit.graph
    /\ contains("P", unit.member) \in outcome.added
    /\ \E m \in {"R", "A"} : contains("P", m) \in unit.graph
\* C26: addMember leaves the containment triple of the child in the
\* statement-set and removeMember leaves it out; neither takes the lock, calls
\* Storage or changes the durable backing, and every step that changes the
\* durable backing belongs to a write() or remove() whose Storage call is in
\* flight.
C26_MembersInMemoryOnly ==
    [][/\ CallAddMember =>
            contains("P", "R") \in graph'["P"] /\ UNCHANGED <<locks, svars>>
       /\ CallRemoveMember =>
            contains("P", "R") \notin graph'["P"] /\ UNCHANGED <<locks, svars>>
       /\ graph'["P"] # graph["P"] =>
            /\ UNCHANGED <<locks, svars>>
            /\ graph'["P"] \in {addMember(graph["P"], "P", "R"),
                                removeMember(graph["P"], "P", "R")}
       /\ <<dir, index, file>>' # <<dir, index, file>> =>
            \E k \in Begun(locks["P"]) : locks["P"][k].op \in {"write", "remove"}
      ]_vars

\* A member was added, written and removed again: the index file still lists
\* it, the statement-set does not, and no Storage call is in flight.
C26_Witness ==
    /\ index["P"] # NoFile /\ contains("P", "R") \in index["P"]
    /\ contains("P", "R") \notin graph["P"]
    /\ Begun(locks["P"]) = {}

\* C27: when the Storage call of a write() or remove() settles, with success
\* or with failure, the lock is released in the same step and the next queued
\* acquisition can be granted; the caller gets the Storage call's outcome, a
\* failure being re-raised.
C27_ReleasedOnSettle ==
    [][\A k \in Begun(locks["P"]) :
          LET t == locks'["P"][k]
          IN  t.io = "settled" =>
                /\ t.st = "released"
                /\ t.op = "write" =>
                      \/ t.res = "ok" /\ dir["P"] /\ index'["P"] = t.snap
                      \/ t.res = "fail" /\ index' = index
                /\ t.op = "remove" =>
                      \/ t.res = "ok" /\ ~dir'["P"]
                      \/ t.res = "fail" /\ rm'["P"] = <<>>
                /\ k < Len(locks["P"]) => willUnlock(locks'["P"], k + 1)
      ]_vars

\* A write() succeeded and released the lock, the remove() behind it failed in
\* Storage and released it too, and the acquisition queued behind that one has
\* been granted.
C27_Witness ==
    /\ Len(locks["P"]) = 3
    /\ locks["P"][1].op = "write" /\ locks["P"][1].res = "ok"
    /\ locks["P"][2].op = "remove" /\ locks["P"][2].res = "fail"
    /\ locks["P"][3].st = "held"
\* The path ends in no separator, or in two.
BadPath(p) == p[Len(p)] # "/" \/ (Len(p) >= 2 /\ p[Len(p) - 1] = "/")

\* C28: constructing a Container with a path that does not end in '/' or ends
\* in '//' throws an error about the form of the url before any lock is taken
\* or any Storage call made; a path that ends in exactly one '/' is accepted.
C28_PathChecked ==
    (unit.fn = "Container" /\ outcome.step > 0) =>
        IF BadPath(unit.pathname)
        THEN /\ outcome.thrown # {}
             /\ outcome.thrown \subseteq {Error("must end with '/'"), Error("ends with '//'")}
             /\ outcome.done /\ ~outcome.ready
             /\ locks["R"] = <<>> /\ pc["R"] = "idle" /\ graph["R"] = {}
             /\ dir["R"] = unit.exists /\ ~plain["R"] /\ faults = 0
             /\ index["R"] = IF unit.exists THEN Existing ELSE NoFile
        ELSE outcome.thrown = {}

\* A path that ends in '//' was refused, with no title given and the
\* directory absent.
C28_Witness ==
    /\ unit.fn = "Container" /\ outcome.step > 0
    /\ Len(unit.pathname) >= 3
    /\ SubSeq(unit.pathname, Len(unit.pathname) - 1, Len(unit.pathname)) = <<"/", "/">>
    /\ unit.title = {} /\ ~unit.exists
    /\ outcome.thrown # {}

\* C29: a Container opened with a pre-parsed graph is ready without a lock()
\* call and without a Storage call, its statement-set being exactly that graph;
\* one opened without it is ready after one lock() call, released again, and
\* one ensureContainer call whose statements are in the statement-set.
C29_Opened ==
    (unit.fn = "Container" /\ outcome.step > 0 /\ outcome.ready) =>
        IF unit.title # {}
        THEN /\ outcome.step = 1
             /\ graph["R"] \in unit.title
             /\ locks["R"] = <<>> /\ pc["R"] = "idle"
             /\ dir["R"] = unit.exists /\ ~plain["R"] /\ faults = 0
             /\ index["R"] = IF unit.exists THEN Existing ELSE NoFile
        ELSE /\ Len(locks["R"]) = 1
             /\ locks["R"][1].op = "load" /\ locks["R"][1].st = "released"
             /\ locks["R"][1].io = "settled" /\ locks["R"][1].res = "ok"
             /\ dir["R"]
             /\ newDir["R"] = ~unit.exists
             /\ graph["R"] = IF unit.exists THEN Existing ELSE makeContainer("R")

\* A Container was opened without a title on a directory that existed and is
\* ready with the statements of its index file.
C29_Witness ==
    /\ unit.fn = "Container" /\ outcome.step = 2 /\ outcome.ready
    /\ unit.title = {} /\ unit.exists
    /\ graph["R"] = Existing

\* A Container was opened with a pre-parsed graph that differs from the index
\* file of its directory, and is ready.
C29_WitnessTitle ==
    /\ unit.fn = "Container" /\ outcome.step > 0 /\ outcome.ready
    /\ unit.title = {makeContainer("R")} /\ unit.exists
\* The children of the node that qualify for a name: every child when no name
\* is given, else those whose URI template matches it.
Qualifying(contents, slug) ==
    {i \in 1..Len(contents) :
        \/ slug \in {{}, {""}}
        \/ contents[i] # {} /\ \E t \in contents[i] : \E name \in slug : match(t, name)}

\* C30: matchingStep returns a step exactly when exactly one child qualifies,
\* and that child is the step's node; with no qualifying child it raises the
\* no-match error and with two or more the ambiguous-match error.
C30_MatchingStep ==
    (unit.fn = "matchingStep" /\ outcome.done) =>
        LET Q == Qualifying(unit.contents, unit.slug)
        IN  /\ (outcome.thrown = {}) = (Cardinality(Q) = 1)
            /\ Q = {} => outcome.thrown = {UriTemplateMatchError("No match")}
            /\ Cardinality(Q) > 1 =>
                  outcome.thrown = {UriTemplateMatchError("Ambiguous match")}
            /\ Cardinality(Q) = 1 => \E r \in outcome.ret : r.node \in Q

\* A segment matches a URI template: one of a single variable takes any name
\* that is not empty, a literal one the name equal to it.
matchesTemplate(t, name) == IF t = <<"{x}">> THEN name # <<>> ELSE name = t

\* The children the walk may select for a segment: those whose label equals
\* it, or, only if no child declares a label, those whose URI template it
\* matches.
Selected(cqz, name) ==
    LET labeled == {i \in 1..Len(cqz) : name \in cqz[i].label}
    IN  IF labeled # {} THEN labeled
        ELSE IF \E i \in 1..Len(cqz) : cqz[i].label # {} THEN {}
        ELSE {i \in 1..Len(cqz) : \E t \in cqz[i].uriTemplate : matchesTemplate(t, name)}

RECURSIVE Walk(_, _, _)
\* The nodes the walk described may end in, from a node over the segments.
Walk(top, node, names) ==
    IF names = <<>> THEN {node}
    ELSE IF Head(names) = <<".">> THEN Walk(top, node, Tail(names))
    ELSE UNION {Walk(top, Append(node, i), Tail(names)) :
                    i \in Selected(contentsOf(top, node), Head(names))}

\* C31: getRdfRoot walks the path segment by segment from the root: a '.'
\* leaves the node as it is, any other segment selects the child whose label
\* equals it or, only if no child declares a label, the child whose URI
\* template it matches; the node returned is the one this walk ends in.
C31_GetRdfRoot ==
    (unit.fn = "getRdfRoot" /\ outcome.done) =>
        LET W == Walk(unit.contents, <<>>, splitPath(unit.path))
        IN  /\ outcome.node \subseteq W
            /\ W # {} => outcome.node # {}

FirstFree(taken) == CHOOSE k \in 0..(MaxTaken + 1) : k \notin taken /\ \A j \in 0..(k - 1) : j \in taken

\* C33: the probe returns the base name (the slug, else the type) when no
\* resource of that name exists under the parent, else base-k for the smallest
\* k >= 1 whose name does not exist, with a '/' at the end for a container; the
\* name returned did not exist when it was probed.
C33_FirstAvailable ==
    (unit.fn = "firstAvailableFile" /\ outcome.done) =>
        /\ outcome.unique \notin unit.taken
        /\ outcome.unique = FirstFree(unit.taken)
        /\ outcome.tested =
              <<IF unit.slug = {"a"} THEN "a" ELSE unit.type>>
                  \o (IF FirstFree(unit.taken) = 0 THEN <<>>
                      ELSE <<"-", ToString(FirstFree(unit.taken))>>)
                  \o (IF unit.type = "Container" THEN <<"/">> ELSE <<>>)

\* C34: a plant POST that resolved with an error response leaves Storage
\* without a new instance container under the parent, and the parent, in its
\* statement-set and in its index file, without the containment triple and
\* the index entry of one.  A call that failed before it chose a location has
\* started no instantiation and no write; one that chose the location of a
\* new instance leaves no container there.
C34_FailedPlantLeavesNothing ==
    (req.plant /\ ~reused /\ fpc = "done" /\ resp.by = "error") =>
        IF location = "none"
        THEN /\ \A n \in Nodes : pc[n] = "idle"
             /\ \A c \in Conts : locks[c] = <<>>
        ELSE /\ ~dir[location]
             /\ \A g \in {graph["P"]} \cup ({index["P"]} \ {NoFile}) :
                   /\ contains("P", location) \notin g
                   /\ <<location, "shapeTreeRoot", ShapeTreeUrl>> \notin g

\* C35: no Container operation leaves the lock held after it has finished:
\* once the Storage call of an open (ensureContainer) or of the promotion to
\* a Managed Container (the write of the binding statements) has settled, with
\* success or with failure, the lock taken for it is released, so that a later
\* write() or remove() on the instance can be granted.
C35_OpenReleasesLock ==
    \A c \in Conts : \A k \in 1..Len(locks[c]) :
        (locks[c][k].op \in {"load", "promote"} /\ locks[c][k].io = "settled") =>
            locks[c][k].st = "released"

\* C36: the instance path a container created by a non-plant POST is promoted
\* with denotes the schema position static instantiation gives a child of
\* that name (the parent's path joined with the name by one separator):
\* getRdfRoot resolves both to the same node, the step the request matched.
C36_PromotedPath ==
    (unit.fn = "promote" /\ outcome.done /\ outcome.staticNode # {}) =>
        outcome.promotedNode = outcome.staticNode

\* C37: the binding fields a newly created ManagedContainer holds in memory
\* equal those obtained when the container is loaded back from Storage with
\* loadContainer, which classifies it as managed.
C37_LoadedBack ==
    \A n \in Nodes :
        (Ready(n) /\ newDir[n] /\ dir[n] /\ index[n] # NoFile) =>
            /\ isManaged(index[n], n)
            /\ parseShapeTreeInstance(index[n], n) = bindingFields(n)


\* C38: reuseShapeTree(parent, S) returns a location only if that location is
\* indexed in the parent as an instance of S, and none otherwise, also when the
\* parent is itself a Managed Container bound to S; after
\* indexInstalledShapeTree(parent, L, S) it returns an indexed location (L when
\* no other is indexed), and after the matching unindexInstalledShapeTree what
\* is left indexed, none when nothing is.
C38_ReuseIndexed ==
    (unit.fn = "reuseShapeTree" /\ outcome.done) =>
        /\ outcome.before \in (IF unit.installed = {} THEN {"none"} ELSE unit.installed)
        /\ outcome.indexed \in unit.installed \cup {unit.instance}
        /\ outcome.unindexed \in
              (IF unit.installed \ {unit.instance} = {} THEN {"none"}
               ELSE unit.installed \ {unit.instance})


\* C39: a cache hit for a url is served from a file that a call for that same
\* url, or for one differing only in its fragment, fetched and wrote: never
\* from what was fetched from another url.
C39_HitOfSameUrl ==
    \A i \in 1..MaxFetches :
        (cf[i].via = "hit" /\ cf[i].pc = "done" /\ cf[i].result.ok) =>
            \E j \in 1..MaxFetches :
                /\ cf[j].via = "miss" /\ cf[j].pc = "done" /\ cf[j].result.ok
                /\ sameResource(cf[j].url, cf[i].url)


\* C40: when every caller that is granted the lock invokes its unlock function
\* in the end, every lock() call on the Mutex is granted in the end, however
\* many calls are queued before it.
C40_EveryLockGranted ==
    \A k \in 1..MaxCalls :
        (Len(locks["P"]) >= k /\ locks["P"][k].st = "queued")
            ~> (Len(locks["P"]) >= k /\ locks["P"][k].st # "queued")

\* The last of the lock() calls that can be queued on P holds the Mutex after
\* every call before it was granted and unlocked.
C40_Witness ==
    /\ Len(locks["P"]) = MaxCalls
    /\ locks["P"][MaxCalls].st = "held"
    /\ \A j \in 1..(MaxCalls - 1) : locks["P"][j].st = "released"

====
